---- MODULE Spec2Model ----
(***************************************************************************)
(* A model of the flatzinc presolver of or-tools                           *)
(* (src/flatzinc/presolve.cc): the rule library, the driver                *)
(* Presolver::Run, the variable substitution support and the model IR the  *)
(* rules act on.                                                           *)
(*                                                                         *)
(* The model IR (Domain, Argument, Constraint, IntegerVariable) lives in   *)
(* flatzinc/model.h, which is not part of the sources at hand; its         *)
(* operations are modelled from their description and from the way         *)
(* presolve.cc uses them.                                                  *)
(***************************************************************************)
EXTENDS Integers, Sequences, FiniteSets, TLC

(***************************************************************************)
(* Bounds of the model.                                                    *)
(***************************************************************************)
\* Width of the machine integers of the model (int64 in the program).
IntBits == 16
\* The largest number of constraints of an input model.
MaxCts == 3
\* Number of consecutive calls of Run on the same model.
MaxRuns == 2

kint64max == 2^(IntBits - 1) - 1
kint64min == -(2^(IntBits - 1))

nullptr == "nullptr"

MaxOf(a, b) == IF a >= b THEN a ELSE b
MinOf(a, b) == IF a <= b THEN a ELSE b

Range(f) == {f[k] : k \in DOMAIN f}

\* The elements of seq that satisfy Test, in order.
RECURSIVE SelectSeqBy(_, _)
SelectSeqBy(seq, keep) ==
  IF seq = << >> THEN << >>
  ELSE IF Head(seq) \in keep THEN <<Head(seq)>> \o SelectSeqBy(Tail(seq), keep)
       ELSE SelectSeqBy(Tail(seq), keep)

\* The increasing sequence of the elements of a finite set of integers.
RECURSIVE SortedSeq(_)
SortedSeq(S) ==
  IF S = {} THEN << >>
  ELSE LET m == CHOOSE x \in S : \A y \in S : x <= y
       IN <<m>> \o SortedSeq(S \ {m})

\* seq without its element at position k (1-based).
RemoveAt(seq, k) == SubSeq(seq, 1, k - 1) \o SubSeq(seq, k + 1, Len(seq))

\* A map (hash_map) is a function whose domain is its set of keys.
EmptyMap == << >>
ContainsKey(m, k) == k \in DOMAIN m
MapPut(m, k, v) == [x \in (DOMAIN m) \cup {k} |-> IF x = k THEN v ELSE m[x]]
FindWithDefault(m, k, d) == IF k \in DOMAIN m THEN m[k] ELSE d

(***************************************************************************)
(* Saturated arithmetic (util/saturated_arithmetic.h).                     *)
(***************************************************************************)
Cap(v) == IF v > kint64max THEN kint64max ELSE IF v < kint64min THEN kint64min ELSE v
CapAdd(a, b) == Cap(a + b)
CapProd(a, b) == Cap(a * b)

\* Two's complement wrap-around of the int64 operators of the program.
Wrap(v) == ((v - kint64min) % (2^IntBits)) + kint64min

\* C++ integer division and remainder truncate towards zero.
AbsInt(a) == IF a < 0 THEN -a ELSE a
CDiv(a, b) ==
  LET q == AbsInt(a) \div AbsInt(b)
  IN IF (a < 0) = (b < 0) THEN q ELSE -q
CMod(a, b) == a - b * CDiv(a, b)

(***************************************************************************)
(* Domain: an interval (values = <<lo, hi>>, or << >> for all int64) or a  *)
(* sorted list of values.                                                  *)
(***************************************************************************)
IntervalDomain(lo, hi) == [is_interval |-> TRUE, values |-> <<lo, hi>>]
ListDomain(vals) == [is_interval |-> FALSE, values |-> vals]
AllInt64Domain == [is_interval |-> TRUE, values |-> << >>]

DomainHasOneValue(d) ==
  \/ Len(d.values) = 1
  \/ Len(d.values) = 2 /\ d.values[1] = d.values[2]

DomainMin(d) ==
  IF d.values = << >> THEN (IF d.is_interval THEN kint64min ELSE kint64max)
  ELSE d.values[1]

DomainMax(d) ==
  IF d.values = << >> THEN (IF d.is_interval THEN kint64max ELSE kint64min)
  ELSE d.values[Len(d.values)]

DomainIsAllInt64(d) ==
  /\ d.is_interval
  /\ \/ d.values = << >>
     \/ d.values[1] = kint64min /\ d.values[2] = kint64max

DomainContains(d, value) ==
  IF d.is_interval
  THEN IF d.values = << >> THEN TRUE
       ELSE value >= d.values[1] /\ value <= d.values[2]
  ELSE value \in Range(d.values)

\* The set of values of a domain (the all-int64 interval is cut to the
\* integers of the model).
DomainSet(d) ==
  IF d.is_interval
  THEN IF d.values = << >> THEN kint64min .. kint64max
       ELSE d.values[1] .. d.values[2]
  ELSE Range(d.values)

IntersectWithInterval(d, imin, imax) ==
  IF d.is_interval
  THEN IF d.values = << >>
       THEN [d EXCEPT !.values = <<imin, imax>>]
       ELSE [d EXCEPT !.values = <<MaxOf(d.values[1], imin), MinOf(d.values[2], imax)>>]
  ELSE [d EXCEPT !.values = SelectSeqBy(d.values, imin .. imax)]

IntersectWithListOfIntegers(d, ovalues) ==
  IF d.is_interval
  THEN LET dmin == IF d.values = << >> THEN kint64min ELSE d.values[1]
           dmax == IF d.values = << >> THEN kint64max ELSE d.values[2]
           kept == SortedSeq({v \in Range(ovalues) : v >= dmin /\ v <= dmax})
       IN IF Len(kept) >= 2 /\ kept[Len(kept)] - kept[1] = Len(kept) - 1
          THEN [is_interval |-> TRUE, values |-> <<kept[1], kept[Len(kept)]>>]
          ELSE [is_interval |-> FALSE, values |-> kept]
  ELSE [d EXCEPT !.values = SelectSeqBy(d.values, Range(ovalues))]

IntersectWithDomain(d, other) ==
  IF other.is_interval
  THEN IF other.values = << >> THEN d
       ELSE IntersectWithInterval(d, other.values[1], other.values[2])
  ELSE IF d.is_interval
       THEN IF d.values = << >> THEN other
            ELSE [is_interval |-> FALSE,
                  values |-> SelectSeqBy(other.values, d.values[1] .. d.values[2])]
       ELSE IntersectWithListOfIntegers(d, other.values)

\* Domain::RemoveValue: <<new domain, whether the value could be removed>>.
\* A value in the middle of an interval is removed by turning the interval
\* into a list, which is done for small intervals only.
SmallInterval == 1024
RemoveValue(d, value) ==
  IF d.is_interval
  THEN IF d.values = << >> THEN <<d, FALSE>>
       ELSE IF value = d.values[1] /\ value # d.values[2]
            THEN <<[d EXCEPT !.values[1] = value + 1], TRUE>>
       ELSE IF value = d.values[2] /\ value # d.values[1]
            THEN <<[d EXCEPT !.values[2] = value - 1], TRUE>>
       ELSE IF d.values[2] - d.values[1] < SmallInterval
               /\ value > d.values[1] /\ value < d.values[2]
            THEN <<ListDomain(SortedSeq((d.values[1] .. d.values[2]) \ {value})), TRUE>>
       ELSE <<d, FALSE>>
  ELSE <<[d EXCEPT !.values = SelectSeqBy(d.values, Range(d.values) \ {value})], TRUE>>

(***************************************************************************)
(* Argument: a tagged union, with its values and its variables.            *)
(***************************************************************************)
IntegerValue(v) == [type |-> "INT_VALUE", values |-> <<v>>, variables |-> << >>]
IntegerInterval(lo, hi) == [type |-> "INT_INTERVAL", values |-> <<lo, hi>>, variables |-> << >>]
IntegerList(vals) == [type |-> "INT_LIST", values |-> vals, variables |-> << >>]
IntVarRef(v) == [type |-> "INT_VAR_REF", values |-> << >>, variables |-> <<v>>]
IntVarRefArray(vs) == [type |-> "INT_VAR_REF_ARRAY", values |-> << >>, variables |-> vs]

BoolToInt(b) == IF b THEN 1 ELSE 0

\* Argument::HasOneValue, in the model state s.
HasOneValue(s, arg) ==
  \/ arg.type = "INT_VALUE"
  \/ arg.type = "INT_LIST" /\ Len(arg.values) = 1
  \/ arg.type = "INT_INTERVAL" /\ arg.values[1] = arg.values[2]
  \/ arg.type = "INT_VAR_REF" /\ DomainHasOneValue(s.variables[arg.variables[1]].domain)

\* Argument::Value, defined when the argument has one value.
Value(s, arg) ==
  IF arg.type = "INT_VAR_REF"
  THEN s.variables[arg.variables[1]].domain.values[1]
  ELSE arg.values[1]

IsVariable(arg) == arg.type = "INT_VAR_REF"

\* Argument::Var: the variable of an INT_VAR_REF, nullptr otherwise.
Var(arg) == IF arg.type = "INT_VAR_REF" THEN arg.variables[1] ELSE nullptr

(***************************************************************************)
(* Strings: the constraint types are strings, cut and glued as the rules   *)
(* do.                                                                     *)
(***************************************************************************)
HasSuffixString(str, suffix) ==
  Len(str) >= Len(suffix) /\ SubSeq(str, Len(str) - Len(suffix) + 1, Len(str)) = suffix

HasPrefixString(str, prefix) ==
  Len(str) >= Len(prefix) /\ SubSeq(str, 1, Len(prefix)) = prefix

\* std::string::resize to a shorter size.
Resize(str, size) == SubSeq(str, 1, size)

\* std::string::substr(pos): the end of the string from the 0-based pos.
Substr(str, pos) == SubSeq(str, pos + 1, Len(str))

\* std::string::erase(pos, n).
Erase(str, pos, n) == SubSeq(str, 1, pos) \o SubSeq(str, pos + n + 1, Len(str))

(***************************************************************************)
(* Constraint and IntegerVariable.  A constraint is named by its position  *)
(* in model->constraints(), 0 is the null constraint; a variable is named  *)
(* by its name, nullptr is the null variable.                              *)
(***************************************************************************)
NewConstraint(type, arguments, target, strong) ==
  [type |-> type, arguments |-> arguments, active |-> TRUE,
   target_variable |-> target, presolve_propagation_done |-> FALSE,
   strong_propagation |-> strong]

NewVariable(domain, temporary, defining) ==
  [domain |-> domain, active |-> TRUE, temporary |-> temporary,
   defining_constraint |-> defining]

\* The result of a rule: the new state and whether the rule reports a change.
Result(s, modified) == [st |-> s, modified |-> modified]

Ct(s, i) == s.constraints[i]
Arg(s, i, k) == s.constraints[i].arguments[k]
Dom(s, v) == s.variables[v].domain

SetDomain(s, v, d) == [s EXCEPT !.variables[v].domain = d]

\* var->domain.IntersectWithInterval(lo, hi).
Tighten(s, v, lo, hi) == SetDomain(s, v, IntersectWithInterval(Dom(s, v), lo, hi))

\* Tightens each variable of the sequence vs to the one value.
RECURSIVE TightenAll(_, _, _)
TightenAll(s, vs, value) ==
  IF vs = << >> THEN s
  ELSE TightenAll(Tighten(s, Head(vs), value, value), Tail(vs), value)

\* Constraint::RemoveTargetVariable.
RemoveTargetVariable(s, i) ==
  LET tv == Ct(s, i).target_variable
  IN IF tv = nullptr THEN s
     ELSE [s EXCEPT !.variables[tv].defining_constraint = 0,
                    !.constraints[i].target_variable = nullptr]

\* Constraint::MarkAsInactive.
MarkAsInactive(s, i) ==
  [RemoveTargetVariable(s, i) EXCEPT !.constraints[i].active = FALSE]

\* Constraint::SetAsFalse.
SetAsFalse(s, i) ==
  [RemoveTargetVariable(s, i) EXCEPT !.constraints[i].type = "false_constraint",
                                     !.constraints[i].arguments = << >>]

\* Constraint::RemoveArg at the 0-based position.
RemoveArg(s, i, pos) ==
  [s EXCEPT !.constraints[i].arguments = RemoveAt(@, pos + 1)]

SetType(s, i, type) == [s EXCEPT !.constraints[i].type = type]
SetArgs(s, i, args) == [s EXCEPT !.constraints[i].arguments = args]

\* IntegerVariable::Merge: variable `to` absorbs the domain and the defining
\* constraint of the variable it replaces.
Merge(s, to, other_domain, other_constraint, other_temporary) ==
  LET v == s.variables[to]
  IN IF v.defining_constraint # 0 /\ other_constraint # 0
     THEN \* Both are defined: Merge returns false, and the CHECK of the caller fails.
          [s EXCEPT !.check_failed = TRUE]
     ELSE [s EXCEPT !.variables[to] =
            [v EXCEPT !.temporary = IF v.temporary /\ ~other_temporary THEN FALSE ELSE @,
                      !.defining_constraint = IF @ = 0 THEN other_constraint ELSE @,
                      !.domain = IntersectWithDomain(@, other_domain)]]

(***************************************************************************)
(* Substitution support.                                                   *)
(***************************************************************************)
\* The top parent of var in the representative map (first loop of
\* FindRepresentativeOfVar).
RECURSIVE TopParent(_, _)
TopParent(map, var) ==
  LET parent == FindWithDefault(map, var, var)
  IN IF parent = var THEN var ELSE TopParent(map, parent)

\* A second loop that detaches start_var from its parent instead of
\* attaching the path to the top parent.
CompressPathDetaching(map, start_var, top) ==
  IF start_var = top THEN map ELSE MapPut(map, start_var, start_var)

\* The second loop of FindRepresentativeOfVar: every variable on the path
\* from start_var is attached to the top parent.
RECURSIVE CompressPath(_, _, _)
CompressPath(map, start_var, top) ==
  IF start_var = top THEN map
  ELSE CompressPath(MapPut(map, start_var, top), map[start_var], top)

\* FindRepresentativeOfVar without its loops: a single lookup in the map,
\* which gives the parent of var and not the top of its chain.
FindRepresentativeOfVarOneStep(map, var) ==
  IF var = nullptr THEN [var |-> nullptr, map |-> map]
  ELSE [var |-> FindWithDefault(map, var, var), map |-> map]

\* FindRepresentativeOfVar: the representative and the compressed map.
FindRepresentativeOfVar(map, var) ==
  IF var = nullptr THEN [var |-> nullptr, map |-> map]
  ELSE LET top == TopParent(map, var)
           compressed == CompressPath(map, var, top)
       IN [var |-> FindWithDefault(compressed, top, top), map |-> compressed]

\* AddVariableSubstition without the switch that keeps a non temporary
\* variable as the representative.
AddVariableSubstitionWithoutSwitch(s, from0, to0) ==
  LET f1 == FindRepresentativeOfVar(s.var_representative_map_, from0)
      t1 == FindRepresentativeOfVar(f1.map, to0)
      s1 == [s EXCEPT !.var_representative_map_ = t1.map]
      from == f1.var
      to == t1.var
  IN IF from = to THEN s1
     ELSE LET fdef == s1.variables[from].defining_constraint
              s2 == IF fdef # 0 /\ s1.variables[to].defining_constraint # 0
                    THEN RemoveTargetVariable(s1, fdef)
                    ELSE s1
              s3 == Merge(s2, to, s2.variables[from].domain,
                          s2.variables[from].defining_constraint,
                          s2.variables[from].temporary)
          IN [s3 EXCEPT !.variables[from].active = FALSE,
                        !.var_representative_map_ = MapPut(@, from, to)]

\* Presolver::AddVariableSubstition.
AddVariableSubstition(s, from0, to0) ==
  LET f1 == FindRepresentativeOfVar(s.var_representative_map_, from0)
      t1 == FindRepresentativeOfVar(f1.map, to0)
      s1 == [s EXCEPT !.var_representative_map_ = t1.map]
      swap == s1.variables[t1.var].temporary
      from == IF swap THEN t1.var ELSE f1.var
      to == IF swap THEN f1.var ELSE t1.var
  IN IF from = to THEN s1
     ELSE LET fdef == s1.variables[from].defining_constraint
              s2 == IF fdef # 0 /\ s1.variables[to].defining_constraint # 0
                    THEN RemoveTargetVariable(s1, fdef)
                    ELSE s1
              s3 == Merge(s2, to, s2.variables[from].domain,
                          s2.variables[from].defining_constraint,
                          s2.variables[from].temporary)
          IN [s3 EXCEPT !.variables[from].active = FALSE,
                        !.var_representative_map_ = MapPut(@, from, to)]

(***************************************************************************)
(* Presolve rules.  Each rule takes the state s and the position i of the  *)
(* constraint, and gives the new state and the boolean it returns.         *)
(***************************************************************************)

\* PresolveBool2Int whose rule 2 replaces the boolean variable by the integer
\* variable.
PresolveBool2IntReversed(s, i) ==
  IF HasOneValue(s, Arg(s, i, 1)) \/ HasOneValue(s, Arg(s, i, 2))
  THEN Result(SetType(s, i, "int_eq"), TRUE)
  ELSE LET from == Var(Arg(s, i, 1))
           to == Var(Arg(s, i, 2))
       IN Result(AddVariableSubstition(MarkAsInactive(s, i), from, to), TRUE)

\* Presolver::PresolveBool2Int.
PresolveBool2Int(s, i) ==
  IF HasOneValue(s, Arg(s, i, 1)) \/ HasOneValue(s, Arg(s, i, 2))
  THEN Result(SetType(s, i, "int_eq"), TRUE)
  ELSE LET from == Var(Arg(s, i, 2))
           to == Var(Arg(s, i, 1))
       IN Result(AddVariableSubstition(MarkAsInactive(s, i), from, to), TRUE)

\* PresolveIntEq whose rules 2 and 4 make the constraint inactive without
\* reducing the domain of the variable.
PresolveIntEqNoPropagation(s, i) ==
  LET a0 == Arg(s, i, 1)
      a1 == Arg(s, i, 2)
  IN IF /\ a0.type = "INT_VAR_REF"
        /\ a1.type = "INT_VALUE"
        /\ Value(s, a1) = 0
        /\ ContainsKey(s.difference_map_, Var(a0))
     THEN LET diff == s.difference_map_[Var(a0)]
              s1 == Tighten(s, Var(a0), 0, 0)
          IN Result(SetArgs(s1, i,
                      <<[a0 EXCEPT !.variables[1] = diff[1]],
                        [type |-> "INT_VAR_REF", values |-> << >>,
                         variables |-> Append(a1.variables, diff[2])]>>
                      \o SubSeq(Ct(s, i).arguments, 3, Len(Ct(s, i).arguments))),
                    TRUE)
     ELSE IF IsVariable(a0)
     THEN IF HasOneValue(s, a1)
          THEN Result(MarkAsInactive(s, i), TRUE)
          ELSE IF IsVariable(a1)
          THEN Result(AddVariableSubstition(MarkAsInactive(s, i), Var(a0), Var(a1)), TRUE)
          ELSE Result(s, FALSE)
     ELSE IF HasOneValue(s, a0)
     THEN IF IsVariable(a1)
          THEN Result(MarkAsInactive(s, i), TRUE)
          ELSE IF HasOneValue(s, a1) /\ Value(s, a0) = Value(s, a1)
          THEN Result(MarkAsInactive(s, i), FALSE)
          ELSE Result(s, FALSE)
     ELSE Result(s, FALSE)

\* Presolver::PresolveIntEq.
PresolveIntEq(s, i) ==
  LET a0 == Arg(s, i, 1)
      a1 == Arg(s, i, 2)
  IN IF /\ a0.type = "INT_VAR_REF"
        /\ a1.type = "INT_VALUE"
        /\ Value(s, a1) = 0
        /\ ContainsKey(s.difference_map_, Var(a0))
     THEN \* Rule 1.
          LET diff == s.difference_map_[Var(a0)]
              s1 == Tighten(s, Var(a0), 0, 0)
          IN Result(SetArgs(s1, i,
                      <<[a0 EXCEPT !.variables[1] = diff[1]],
                        [type |-> "INT_VAR_REF", values |-> << >>,
                         variables |-> Append(a1.variables, diff[2])]>>
                      \o SubSeq(Ct(s, i).arguments, 3, Len(Ct(s, i).arguments))),
                    TRUE)
     ELSE IF IsVariable(a0)
     THEN IF HasOneValue(s, a1)
          THEN \* Rule 2.
               LET value == Value(s, a1)
               IN Result(MarkAsInactive(Tighten(s, Var(a0), value, value), i), TRUE)
          ELSE IF IsVariable(a1)
          THEN \* Rule 3.
               Result(AddVariableSubstition(MarkAsInactive(s, i), Var(a0), Var(a1)), TRUE)
          ELSE Result(s, FALSE)
     ELSE IF HasOneValue(s, a0)
     THEN LET value == Value(s, a0)
          IN IF IsVariable(a1)
             THEN \* Rule 4.
                  Result(MarkAsInactive(Tighten(s, Var(a1), value, value), i), TRUE)
             ELSE IF HasOneValue(s, a1) /\ value = Value(s, a1)
             THEN \* Rule 5.
                  Result(MarkAsInactive(s, i), FALSE)
             ELSE Result(s, FALSE)
     ELSE Result(s, FALSE)

\* One operand of the condition of PresolveIntNe: the variable argument av
\* loses the value of the argument ac.  <<state, whether the operand holds>>.
IntNeRemove(s, av, ac) ==
  IF IsVariable(av) /\ HasOneValue(s, ac)
  THEN IF ~DomainContains(Dom(s, Var(av)), Value(s, ac))
       THEN <<s, TRUE>>
       ELSE LET removed == RemoveValue(Dom(s, Var(av)), Value(s, ac))
            IN <<SetDomain(s, Var(av), removed[1]), removed[2]>>
  ELSE <<s, FALSE>>

\* Presolver::PresolveIntNe.
PresolveIntNe(s, i) ==
  IF Ct(s, i).presolve_propagation_done THEN Result(s, FALSE)
  ELSE LET first == IntNeRemove(s, Arg(s, i, 1), Arg(s, i, 2))
       IN IF first[2] THEN Result(MarkAsInactive(first[1], i), TRUE)
          ELSE LET second == IntNeRemove(first[1], Arg(s, i, 2), Arg(s, i, 1))
               IN IF second[2] THEN Result(MarkAsInactive(second[1], i), TRUE)
                  ELSE Result(second[1], FALSE)

\* The exact result v of an int64 operation does not fit in an int64.
Overflows(v) == v > kint64max \/ v < kint64min

\* A signed overflow is undefined behaviour: the build wraps the result around
\* (s.garbage = 0), or it traps and the program ends as on a failed CHECK.
Traps(s, v) == Overflows(v) /\ s.garbage # 0

IsLe(id) == id = "int_le" \/ id = "bool_le"
IsLt(id) == id = "int_lt" \/ id = "bool_lt"
IsGe(id) == id = "int_ge" \/ id = "bool_ge"
IsGt(id) == id = "int_gt" \/ id = "bool_gt"

\* Presolver::PresolveInequalities.
PresolveInequalities(s, i) ==
  LET id == Ct(s, i).type
      a0 == Arg(s, i, 1)
      a1 == Arg(s, i, 2)
  IN IF a0.variables = << >> /\ a1.variables = << >>
     THEN \* Rule 1.
          LET left == Value(s, a0)
              right == Value(s, a1)
              result == IF IsLe(id) THEN left <= right
                        ELSE IF IsLt(id) THEN left < right
                        ELSE IF IsGe(id) THEN left >= right
                        ELSE IF IsGt(id) THEN left > right
                        ELSE TRUE
          IN IF result THEN Result(MarkAsInactive(s, i), TRUE)
             ELSE Result(SetAsFalse(s, i), TRUE)
     ELSE IF IsVariable(a0) /\ HasOneValue(s, a1)
     THEN \* Rule 2, the variable is the left operand.
          LET var == Var(a0)
              value == Value(s, a1)
              s1 == IF IsLe(id) THEN Tighten(s, var, kint64min, value)
                    ELSE IF IsLt(id) THEN Tighten(s, var, kint64min, Wrap(value - 1))
                    ELSE IF IsGe(id) THEN Tighten(s, var, value, kint64max)
                    ELSE IF IsGt(id) THEN Tighten(s, var, Wrap(value + 1), kint64max)
                    ELSE s
          IN IF (IsLt(id) /\ Traps(s, value - 1)) \/ (IsGt(id) /\ Traps(s, value + 1))
             THEN Result([s EXCEPT !.check_failed = TRUE], FALSE)
             ELSE Result(MarkAsInactive(s1, i), TRUE)
     ELSE IF HasOneValue(s, a0) /\ IsVariable(a1)
     THEN \* Rule 2, the variable is the right operand.
          LET var == Var(a1)
              value == Value(s, a0)
              s1 == IF IsLe(id) THEN Tighten(s, var, value, kint64max)
                    ELSE IF IsLt(id) THEN Tighten(s, var, Wrap(value + 1), kint64max)
                    ELSE IF IsGe(id) THEN Tighten(s, var, kint64min, value)
                    ELSE IF IsGt(id) THEN Tighten(s, var, kint64min, Wrap(value - 1))
                    ELSE s
          IN IF (IsLt(id) /\ Traps(s, value + 1)) \/ (IsGt(id) /\ Traps(s, value - 1))
             THEN Result([s EXCEPT !.check_failed = TRUE], FALSE)
             ELSE Result(MarkAsInactive(s1, i), TRUE)
     ELSE \* Rule 3.
          LET left == Var(a0)
              right == Var(a1)
              left_min == DomainMin(Dom(s, left))
              left_max == DomainMax(Dom(s, left))
              right_min == DomainMin(Dom(s, right))
              right_max == DomainMax(Dom(s, right))
          IN IF IsLe(id)
             THEN Result(Tighten(Tighten(s, left, kint64min, right_max),
                                 right, left_min, kint64max),
                         left_max > right_max \/ right_min < left_min)
             ELSE IF IsLt(id)
             THEN Result(Tighten(Tighten(s, left, kint64min, Wrap(right_max - 1)),
                                 right, Wrap(left_min + 1), kint64max),
                         left_max >= right_max \/ right_min <= left_min)
             ELSE IF IsGe(id)
             THEN Result(Tighten(Tighten(s, left, right_min, kint64max),
                                 right, kint64min, left_max),
                         right_max > left_max \/ left_min < right_min)
             ELSE IF IsGt(id)
             THEN Result(Tighten(Tighten(s, left, Wrap(right_min + 1), kint64max),
                                 right, kint64min, Wrap(left_max - 1)),
                         right_max >= left_max \/ left_min <= right_min)
             ELSE Result(s, FALSE)

\* The comparison that Unreify puts in place of op when the boolean is false.
InverseOp(op) ==
  IF op = "ne" THEN "eq"
  ELSE IF op = "eq" THEN "ne"
  ELSE IF op = "le" THEN "gt"
  ELSE IF op = "lt" THEN "ge"
  ELSE IF op = "ge" THEN "lt"
  ELSE IF op = "gt" THEN "le"
  ELSE ""

\* Unreify that keeps the relation when the Boolean is fixed to false.
UnreifyWithoutInversion(s, i) ==
  LET ct == Ct(s, i)
      last_argument == Len(ct.arguments)
  IN IF ~HasOneValue(s, ct.arguments[last_argument]) THEN Result(s, FALSE)
     ELSE Result(SetArgs(RemoveTargetVariable(
                           SetType(s, i, Resize(ct.type, Len(ct.type) - 5)), i),
                         i, SubSeq(ct.arguments, 1, last_argument - 1)), TRUE)

\* Presolver::Unreify.
Unreify(s, i) ==
  LET ct == Ct(s, i)
      last_argument == Len(ct.arguments)
  IN IF ~HasOneValue(s, ct.arguments[last_argument]) THEN Result(s, FALSE)
     ELSE LET type == Resize(ct.type, Len(ct.type) - 5)
              s1 == RemoveTargetVariable(SetType(s, i, type), i)
              popped == SubSeq(ct.arguments, 1, last_argument - 1)
          IN IF Value(s, ct.arguments[last_argument]) = 1
             THEN \* Rule 1.
                  Result(SetArgs(s1, i, popped), TRUE)
             ELSE IF type = "set_in" \/ type = "set_not_in"
             THEN \* Rule 2.
                  Result(SetType(SetArgs(s1, i, popped), i,
                                 Resize(type, Len(type) - 2) \o "not_in"), TRUE)
             ELSE \* Rule 2.
                  LET op == Substr(type, Len(type) - 2)
                  IN Result(SetType(SetArgs(s1, i, popped), i,
                                    Resize(type, Len(type) - 2) \o InverseOp(op)), TRUE)

\* Presolver::IntersectDomainWith (a set of constant values).
IntersectDomainWith(arg, domain) ==
  IF arg.type = "INT_VALUE"
  THEN IntersectWithInterval(domain, arg.values[1], arg.values[1])
  ELSE IF arg.type = "INT_INTERVAL"
  THEN IntersectWithInterval(domain, arg.values[1], arg.values[2])
  ELSE IntersectWithListOfIntegers(domain, arg.values)

\* Presolver::PresolveSetIn.
PresolveSetIn(s, i) ==
  IF IsVariable(Arg(s, i, 1))
  THEN LET var == Var(Arg(s, i, 1))
       IN Result(MarkAsInactive(
                   SetDomain(s, var, IntersectDomainWith(Arg(s, i, 2), Dom(s, var))), i),
                 TRUE)
  ELSE Result(s, FALSE)

SetPropagationDone(s, i, done) ==
  [s EXCEPT !.constraints[i].presolve_propagation_done = done]

\* Presolver::PresolveIntTimes.
PresolveIntTimes(s, i) ==
  LET ct == Ct(s, i)
  IN IF /\ HasOneValue(s, ct.arguments[1])
        /\ HasOneValue(s, ct.arguments[2])
        /\ IsVariable(ct.arguments[3])
        /\ ~ct.presolve_propagation_done
     THEN LET exact == Value(s, ct.arguments[1]) * Value(s, ct.arguments[2])
              value == Wrap(exact)
              safe_value == CapProd(Value(s, ct.arguments[1]), Value(s, ct.arguments[2]))
              var == Var(ct.arguments[3])
          IN IF Traps(s, exact) THEN Result([s EXCEPT !.check_failed = TRUE], FALSE)
             ELSE IF value = safe_value
             THEN LET s1 == SetPropagationDone(s, i, TRUE)
                  IN IF DomainContains(Dom(s1, var), value)
                     THEN Result(MarkAsInactive(Tighten(s1, var, value, value), i), TRUE)
                     ELSE Result(s1, FALSE)
             ELSE Result(s, FALSE)
     ELSE Result(s, FALSE)

\* Presolver::PresolveIntDiv.
PresolveIntDiv(s, i) ==
  LET ct == Ct(s, i)
  IN IF /\ HasOneValue(s, ct.arguments[1])
        /\ HasOneValue(s, ct.arguments[2])
        /\ IsVariable(ct.arguments[3])
        /\ ~ct.presolve_propagation_done
        /\ Value(s, ct.arguments[2]) # 0
     THEN LET exact == CDiv(Value(s, ct.arguments[1]), Value(s, ct.arguments[2]))
              value == Wrap(exact)
              var == Var(ct.arguments[3])
              s1 == SetPropagationDone(s, i, TRUE)
          IN IF Traps(s, exact) THEN Result([s EXCEPT !.check_failed = TRUE], FALSE)
             ELSE IF DomainContains(Dom(s1, var), value)
             THEN Result(MarkAsInactive(Tighten(s1, var, value, value), i), TRUE)
             ELSE Result(s1, FALSE)
     ELSE Result(s, FALSE)

\* The variables of the sequence vars whose domain has more than one value.
Unbound(s, vars) ==
  SelectSeqBy(vars, {v \in Range(vars) : ~DomainHasOneValue(Dom(s, v))})

\* PresolveArrayBoolOr whose rules 2 and 3 make the constraint inactive
\* without forcing the elements to 0 or the target to 1.
PresolveArrayBoolOrNoPropagation(s, i) ==
  LET ct == Ct(s, i)
      array == ct.arguments[1].variables
      a1 == ct.arguments[2]
  IN IF Len(array) = 1
     THEN Result([SetType(s, i, "bool_eq") EXCEPT
                    !.constraints[i].arguments[1].type = "INT_VAR_REF"], TRUE)
     ELSE IF ~ct.presolve_propagation_done /\ HasOneValue(s, a1) /\ Value(s, a1) = 0
     THEN IF \E k \in 1..Len(array) : ~DomainContains(Dom(s, array[k]), 0)
          THEN Result(s, FALSE)
          ELSE Result(MarkAsInactive(s, i), TRUE)
     ELSE LET has_bound_true_value ==
                \E k \in 1..Len(array) :
                   DomainHasOneValue(Dom(s, array[k])) /\ DomainMin(Dom(s, array[k])) = 1
              unbound == Unbound(s, array)
          IN IF has_bound_true_value
             THEN IF ~HasOneValue(s, a1)
                  THEN Result(MarkAsInactive(s, i), TRUE)
                  ELSE IF Value(s, a1) = 1
                  THEN Result(MarkAsInactive(s, i), TRUE)
                  ELSE Result(s, FALSE)
             ELSE IF unbound = << >>
             THEN IF ~HasOneValue(s, a1)
                  THEN Result(MarkAsInactive(Tighten(s, a1.variables[1], 0, 0), i), TRUE)
                  ELSE Result(s, FALSE)
             ELSE IF Len(unbound) < Len(array)
             THEN Result([s EXCEPT !.constraints[i].arguments[1].variables = unbound], TRUE)
             ELSE Result(s, FALSE)

\* Presolver::PresolveArrayBoolOr.
PresolveArrayBoolOr(s, i) ==
  LET ct == Ct(s, i)
      array == ct.arguments[1].variables
      a1 == ct.arguments[2]
  IN IF Len(array) = 1
     THEN \* Rule 1.
          Result([SetType(s, i, "bool_eq") EXCEPT
                    !.constraints[i].arguments[1].type = "INT_VAR_REF"], TRUE)
     ELSE IF ~ct.presolve_propagation_done /\ HasOneValue(s, a1) /\ Value(s, a1) = 0
     THEN \* Rule 2.
          IF \E k \in 1..Len(array) : ~DomainContains(Dom(s, array[k]), 0)
          THEN Result(s, FALSE)
          ELSE Result(MarkAsInactive(TightenAll(s, array, 0), i), TRUE)
     ELSE LET has_bound_true_value ==
                \E k \in 1..Len(array) :
                   DomainHasOneValue(Dom(s, array[k])) /\ DomainMin(Dom(s, array[k])) = 1
              unbound == Unbound(s, array)
          IN IF has_bound_true_value
             THEN \* Rule 3.
                  IF ~HasOneValue(s, a1)
                  THEN Result(MarkAsInactive(Tighten(s, a1.variables[1], 1, 1), i), TRUE)
                  ELSE IF Value(s, a1) = 1
                  THEN Result(MarkAsInactive(s, i), TRUE)
                  ELSE Result(s, FALSE)
             ELSE IF unbound = << >>
             THEN \* Rule 4.
                  IF ~HasOneValue(s, a1)
                  THEN Result(MarkAsInactive(Tighten(s, a1.variables[1], 0, 0), i), TRUE)
                  ELSE Result(s, FALSE)
             ELSE IF Len(unbound) < Len(array)
             THEN \* Rule 5.
                  Result([s EXCEPT !.constraints[i].arguments[1].variables = unbound], TRUE)
             ELSE Result(s, FALSE)

\* Presolver::PresolveArrayBoolAnd.
PresolveArrayBoolAnd(s, i) ==
  LET ct == Ct(s, i)
      array == ct.arguments[1].variables
      a1 == ct.arguments[2]
  IN IF Len(array) = 1
     THEN \* Rule 1.
          Result([SetType(s, i, "bool_eq") EXCEPT
                    !.constraints[i].arguments[1].type = "INT_VAR_REF"], TRUE)
     ELSE IF ~ct.presolve_propagation_done /\ HasOneValue(s, a1) /\ Value(s, a1) = 1
     THEN \* Rule 2.
          IF \E k \in 1..Len(array) : ~DomainContains(Dom(s, array[k]), 1)
          THEN Result(s, FALSE)
          ELSE Result(MarkAsInactive(
                        SetPropagationDone(TightenAll(s, array, 1), i, TRUE), i), TRUE)
     ELSE LET has_bound_false_value ==
                \E k \in 1..Len(array) :
                   DomainHasOneValue(Dom(s, array[k])) /\ DomainMax(Dom(s, array[k])) = 0
              unbound == Unbound(s, array)
          IN IF has_bound_false_value
             THEN \* Rule 3.
                  IF ~HasOneValue(s, a1)
                  THEN Result(MarkAsInactive(Tighten(s, a1.variables[1], 0, 0), i), TRUE)
                  ELSE IF Value(s, a1) = 0
                  THEN Result(MarkAsInactive(s, i), TRUE)
                  ELSE Result(s, FALSE)
             ELSE IF unbound = << >>
             THEN \* Rule 4.
                  IF ~HasOneValue(s, a1)
                  THEN Result(MarkAsInactive(Tighten(s, a1.variables[1], 1, 1), i), TRUE)
                  ELSE Result(s, FALSE)
             ELSE IF Len(unbound) < Len(array)
             THEN \* Rule 5.
                  Result([s EXCEPT !.constraints[i].arguments[1].variables = unbound], TRUE)
             ELSE Result(s, FALSE)

\* Presolver::PresolveBoolEqNeReif.
PresolveBoolEqNeReif(s, i) ==
  LET ct == Ct(s, i)
      NewType(value) ==
        IF (ct.type = "bool_eq_reif" /\ value = 1) \/ (ct.type = "bool_ne_reif" /\ value = 0)
        THEN "bool_eq" ELSE "bool_not"
  IN IF HasOneValue(s, ct.arguments[2])
     THEN Result(SetType(RemoveArg(s, i, 1), i, NewType(Value(s, ct.arguments[2]))), TRUE)
     ELSE IF HasOneValue(s, ct.arguments[1])
     THEN Result(SetType(RemoveArg(s, i, 0), i, NewType(Value(s, ct.arguments[1]))), TRUE)
     ELSE Result(s, FALSE)

\* Presolver::PresolveIntLinGt.
PresolveIntLinGt(s, i) ==
  IF Value(s, Arg(s, i, 3)) # kint64max
  THEN Result([SetType(s, i, "int_lin_ge") EXCEPT
                 !.constraints[i].arguments[3].values[1] = @ + 1], TRUE)
  ELSE Result(s, FALSE)

\* Presolver::PresolveIntLinLt.
PresolveIntLinLt(s, i) ==
  IF Value(s, Arg(s, i, 3)) # kint64min
  THEN Result([SetType(s, i, "int_lin_le") EXCEPT
                 !.constraints[i].arguments[3].values[1] = @ - 1], TRUE)
  ELSE Result(s, FALSE)

\* Presolver::SimplifyUnaryLinear.  The rule reads the first coefficient
\* before it looks at the number of coefficients; with no coefficient the
\* read is outside of the vector and the value read is not used.
SimplifyUnaryLinear(s, i) ==
  LET ct == Ct(s, i)
      values == ct.arguments[1].values
      rhs == Value(s, ct.arguments[3])
  IN IF Len(values) = 1
        /\ (values[1] = 1 \/ (values[1] > 0 /\ CMod(rhs, values[1]) = 0))
     THEN LET coefficient == values[1]
              a0 == [type |-> "INT_VAR_REF", values |-> << >>,
                     variables |-> Append(ct.arguments[1].variables,
                                          ct.arguments[2].variables[1])]
              a1 == [type |-> "INT_VALUE",
                     values |-> Append(ct.arguments[2].values, CDiv(rhs, coefficient)),
                     variables |-> << >>]
              s1 == SetArgs(s, i, <<a0, a1>> \o SubSeq(ct.arguments, 3, Len(ct.arguments)))
          IN Result(SetType(RemoveArg(s1, i, 2), i, Erase(ct.type, 3, 4)), TRUE)
     ELSE Result(IF values = << >> THEN [s EXCEPT !.out_of_bounds = TRUE] ELSE s, FALSE)

\* Presolver::SimplifyBinaryLinear.
SimplifyBinaryLinear(s, i) ==
  LET ct == Ct(s, i)
      values == ct.arguments[1].values
      vars == ct.arguments[2].variables
      rhs == Value(s, ct.arguments[3])
  IN IF Len(values) # 2 \/ rhs # 0 \/ Len(vars) = 0 THEN Result(s, FALSE)
     ELSE IF ~(values = <<1, -1>> \/ values = <<-1, 1>>) THEN Result(s, FALSE)
     ELSE LET first == IF values = <<1, -1>> THEN vars[1] ELSE vars[2]
              second == IF values = <<1, -1>> THEN vars[2] ELSE vars[1]
              a0 == [type |-> "INT_VAR_REF", values |-> << >>,
                     variables |-> Append(ct.arguments[1].variables, first)]
              a1 == [ct.arguments[2] EXCEPT !.type = "INT_VAR_REF",
                                            !.variables = <<second>>]
              s1 == SetArgs(s, i, <<a0, a1>> \o SubSeq(ct.arguments, 3, Len(ct.arguments)))
          IN Result(SetType(RemoveArg(s1, i, 2), i, Erase(ct.type, 3, 4)), TRUE)

\* ComputeLinBounds: the bounds of the scalar product from term k on, or an
\* overflow (ok = FALSE).
RECURSIVE ComputeLinBoundsFrom(_, _, _, _, _, _)
ComputeLinBoundsFrom(s, coefficients, variables, k, lb, ub) ==
  IF k > Len(coefficients) THEN [ok |-> TRUE, lb |-> lb, ub |-> ub]
  ELSE LET coef == coefficients[k]
           d == Dom(s, variables[k])
       IN IF coef = 0
          THEN ComputeLinBoundsFrom(s, coefficients, variables, k + 1, lb, ub)
          ELSE IF DomainMin(d) = kint64min \/ DomainMax(d) = kint64max
          THEN [ok |-> FALSE, lb |-> lb, ub |-> ub]
          ELSE LET vmin == DomainMin(d)
                   vmax == DomainMax(d)
                   min_delta == IF coef > 0 THEN CapProd(vmin, coef) ELSE CapProd(vmax, coef)
                   max_delta == IF coef > 0 THEN CapProd(vmax, coef) ELSE CapProd(vmin, coef)
                   lb1 == CapAdd(lb, min_delta)
                   ub1 == CapAdd(ub, max_delta)
               IN IF \/ lb1 = kint64min \/ min_delta = kint64min \/ min_delta = kint64max
                     \/ max_delta = kint64min \/ max_delta = kint64max \/ ub1 = kint64max
                  THEN [ok |-> FALSE, lb |-> lb1, ub |-> ub1]
                  ELSE ComputeLinBoundsFrom(s, coefficients, variables, k + 1, lb1, ub1)

ComputeLinBounds(s, coefficients, variables) ==
  ComputeLinBoundsFrom(s, coefficients, variables, 1, 0, 0)

\* CheckIntLinReifBounds without the test of the overflow.
CheckIntLinReifBoundsSaturated(s, i) ==
  LET ct == Ct(s, i)
      bounds == ComputeLinBounds(s, ct.arguments[1].values, ct.arguments[2].variables)
      value == Value(s, ct.arguments[3])
      boolvar == Var(ct.arguments[4])
  IN IF value < bounds.lb \/ value > bounds.ub
     THEN Result(MarkAsInactive(Tighten(s, boolvar, 0, 0), i), TRUE)
     ELSE IF value = bounds.lb /\ value = bounds.ub
     THEN Result(MarkAsInactive(Tighten(s, boolvar, 1, 1), i), TRUE)
     ELSE Result(s, FALSE)

\* Presolver::CheckIntLinReifBounds.
CheckIntLinReifBounds(s, i) ==
  LET ct == Ct(s, i)
      bounds == ComputeLinBounds(s, ct.arguments[1].values, ct.arguments[2].variables)
      value == Value(s, ct.arguments[3])
      boolvar == Var(ct.arguments[4])
  IN IF ~bounds.ok THEN Result(s, FALSE)
     ELSE IF value < bounds.lb \/ value > bounds.ub
     THEN Result(MarkAsInactive(Tighten(s, boolvar, 0, 0), i), TRUE)
     ELSE IF value = bounds.lb /\ value = bounds.ub
     THEN Result(MarkAsInactive(Tighten(s, boolvar, 1, 1), i), TRUE)
     ELSE Result(s, FALSE)

\* The test of CreateLinearTarget on the variable at the 0-based var_index.
CanBeLinearTarget(s, i, var_index) ==
  LET ct == Ct(s, i)
  IN /\ Len(ct.arguments[1].values) = 2
     /\ ct.arguments[1].values[var_index + 1] = -1
     /\ s.variables[ct.arguments[2].variables[var_index + 1]].defining_constraint = 0
     /\ ~DomainHasOneValue(Dom(s, ct.arguments[2].variables[var_index + 1]))

SetTarget(s, i, var) ==
  [s EXCEPT !.variables[var].defining_constraint = i,
            !.constraints[i].target_variable = var]

\* Presolver::CreateLinearTarget.
CreateLinearTarget(s, i) ==
  LET ct == Ct(s, i)
  IN IF ct.target_variable # nullptr THEN Result(s, FALSE)
     ELSE IF CanBeLinearTarget(s, i, 0)
     THEN Result(SetTarget(s, i, ct.arguments[2].variables[1]), TRUE)
     ELSE IF CanBeLinearTarget(s, i, 1)
     THEN Result(SetTarget(s, i, ct.arguments[2].variables[2]), TRUE)
     ELSE Result(s, FALSE)

\* The last position of the array, not after last_index, whose value lies in
\* [target_min, target_max]; 0 if there is none.
RECURSIVE LastIndexInRange(_, _, _, _)
LastIndexInRange(values, last_index, target_min, target_max) ==
  IF last_index >= 1
     /\ (values[last_index] < target_min \/ values[last_index] > target_max)
  THEN LastIndexInRange(values, last_index - 1, target_min, target_max)
  ELSE last_index

\* The first position of the array, from first_index on, whose value lies in
\* [target_min, target_max]; last_index + 1 if there is none.
RECURSIVE FirstIndexInRange(_, _, _, _, _)
FirstIndexInRange(values, first_index, last_index, target_min, target_max) ==
  IF first_index <= last_index
     /\ (values[first_index] < target_min \/ values[first_index] > target_max)
  THEN FirstIndexInRange(values, first_index + 1, last_index, target_min, target_max)
  ELSE first_index

\* Rule 2 of PresolveArrayIntElement, intersecting the domain of the target
\* with the values at the positions of the domain of the index only.
ArrayIntElementPropagateAtIndex(s, i) ==
  LET ct == Ct(s, i)
  IN IF IsVariable(ct.arguments[3]) /\ ~ct.presolve_propagation_done
     THEN LET target == Var(ct.arguments[3])
              values == ct.arguments[2].values
              reachable ==
                IF IsVariable(ct.arguments[1])
                THEN SubSeq(values,
                            MaxOf(DomainMin(Dom(s, Var(ct.arguments[1]))), 1),
                            MinOf(DomainMax(Dom(s, Var(ct.arguments[1]))), Len(values)))
                ELSE values
          IN Result(SetPropagationDone(
                      SetDomain(s, target,
                                IntersectWithListOfIntegers(Dom(s, target), reachable)),
                      i, TRUE), TRUE)
     ELSE Result(s, FALSE)

\* Rule 2 of PresolveArrayIntElement.
ArrayIntElementPropagate(s, i) ==
  LET ct == Ct(s, i)
  IN IF IsVariable(ct.arguments[3]) /\ ~ct.presolve_propagation_done
     THEN LET target == Var(ct.arguments[3])
          IN Result(SetPropagationDone(
                      SetDomain(s, target,
                                IntersectDomainWith(ct.arguments[2], Dom(s, target))),
                      i, TRUE), TRUE)
     ELSE Result(s, FALSE)

\* Presolver::PresolveArrayIntElement.
PresolveArrayIntElement(s, i) ==
  LET ct == Ct(s, i)
      a0 == ct.arguments[1]
      a2 == ct.arguments[3]
  IN IF Len(a0.variables) = 1 /\ ~HasOneValue(s, a0)
     THEN \* Rule 1.
          LET index == Var(a0)
              target_min == IF HasOneValue(s, a2) THEN Value(s, a2)
                            ELSE DomainMin(Dom(s, Var(a2)))
              target_max == IF HasOneValue(s, a2) THEN Value(s, a2)
                            ELSE DomainMax(Dom(s, Var(a2)))
              values == ct.arguments[2].values
              last_index == LastIndexInRange(values,
                              MinOf(DomainMax(Dom(s, index)), Len(values)),
                              target_min, target_max)
              first_index == FirstIndexInRange(values,
                               MaxOf(DomainMin(Dom(s, index)), 1), last_index,
                               target_min, target_max)
          IN IF last_index < DomainMax(Dom(s, index)) \/ first_index > DomainMin(Dom(s, index))
             THEN Result([Tighten(s, index, first_index, last_index) EXCEPT
                            !.constraints[i].arguments[2].values =
                               SubSeq(values, 1, last_index)], TRUE)
             ELSE ArrayIntElementPropagate(s, i)
     ELSE ArrayIntElementPropagate(s, i)

\* The scalar product of two lists of constants, with the int64 operators.
RECURSIVE ScalProd(_, _, _)
ScalProd(coefficients, values, k) ==
  IF k > Len(coefficients) THEN 0
  ELSE Wrap(Wrap(coefficients[k] * values[k]) + ScalProd(coefficients, values, k + 1))

Negated(values) == [k \in 1..Len(values) |-> Wrap(values[k] * (-1))]

\* bool_eq(boolvar, t): what Rule 3 of PresolveLinear makes of a reified
\* linear constraint without variables.
ConstantLinearAsBoolEq(s, i, t) ==
  SetArgs(SetType(s, i, "bool_eq"), i, <<Arg(s, i, 4), IntegerValue(BoolToInt(t))>>)

\* The constraint is true or false: inactive, or set as false.
Decide(s, i, holds) == IF holds THEN MarkAsInactive(s, i) ELSE SetAsFalse(s, i)

\* Presolver::PresolveLinear.
PresolveLinear(s, i) ==
  LET ct == Ct(s, i)
      coefficients == ct.arguments[1].values
  IN IF coefficients = << >> THEN Result(s, FALSE)
     ELSE IF ct.arguments[2].variables = << >>
     THEN \* Rule 2 and rule 3.
          LET scalprod == ScalProd(coefficients, ct.arguments[2].values, 1)
              rhs == Value(s, ct.arguments[3])
          IN IF ct.type = "int_lin_eq" THEN Result(Decide(s, i, scalprod = rhs), TRUE)
             ELSE IF ct.type = "int_lin_le" THEN Result(Decide(s, i, scalprod <= rhs), TRUE)
             ELSE IF ct.type = "int_lin_ge" THEN Result(Decide(s, i, scalprod >= rhs), TRUE)
             ELSE IF ct.type = "int_lin_ne" THEN Result(Decide(s, i, scalprod # rhs), TRUE)
             ELSE IF ct.type = "int_lin_eq_reif"
             THEN Result(ConstantLinearAsBoolEq(s, i, scalprod = rhs), TRUE)
             ELSE IF ct.type = "int_lin_ge_reif"
             THEN Result(ConstantLinearAsBoolEq(s, i, scalprod >= rhs), TRUE)
             ELSE IF ct.type = "int_lin_le_reif"
             THEN Result(ConstantLinearAsBoolEq(s, i, scalprod <= rhs), TRUE)
             ELSE IF ct.type = "int_lin_ne_reif"
             THEN Result(ConstantLinearAsBoolEq(s, i, scalprod # rhs), TRUE)
             ELSE Result(s, TRUE)
     ELSE \* Rule 1.
          IF \E k \in 1..Len(coefficients) : coefficients[k] > 0 THEN Result(s, FALSE)
          ELSE IF ct.target_variable # nullptr
                  /\ ct.target_variable \in Range(ct.arguments[2].variables)
          THEN Result(s, FALSE)
          ELSE LET type == IF ct.type = "int_lin_le" THEN "int_lin_ge"
                           ELSE IF ct.type = "int_lin_lt" THEN "int_lin_gt"
                           ELSE IF ct.type = "int_lin_ge" THEN "int_lin_le"
                           ELSE IF ct.type = "int_lin_gt" THEN "int_lin_lt"
                           ELSE IF ct.type = "int_lin_le_reif" THEN "int_lin_ge_reif"
                           ELSE IF ct.type = "int_lin_ge_reif" THEN "int_lin_le_reif"
                           ELSE ct.type
               IN Result([SetType(s, i, type) EXCEPT
                            !.constraints[i].arguments[1].values = Negated(@),
                            !.constraints[i].arguments[3].values[1] = Wrap(@ * (-1))],
                         TRUE)

\* The sum of the coefficients of the variable var in the linear constraint.
RECURSIVE SumCoefficients(_, _, _, _)
SumCoefficients(values, variables, var, k) ==
  IF k > Len(values) THEN 0
  ELSE Wrap((IF variables[k] = var THEN values[k] ELSE 0)
            + SumCoefficients(values, variables, var, k + 1))

\* The regrouped terms: each variable once, at its first position, with the
\* sum of its coefficients, unless that sum is zero.
RECURSIVE RegroupedTerms(_, _, _, _)
RegroupedTerms(values, variables, k, processed) ==
  IF k > Len(values) THEN [values |-> << >>, variables |-> << >>]
  ELSE LET fz_var == variables[k]
           coefficient == SumCoefficients(values, variables, fz_var, 1)
           rest == RegroupedTerms(values, variables, k + 1, processed \cup {fz_var})
       IN IF fz_var \notin processed /\ coefficient # 0
          THEN [values |-> <<coefficient>> \o rest.values,
                variables |-> <<fz_var>> \o rest.variables]
          ELSE rest

\* Presolver::RegroupLinear.
RegroupLinear(s, i) ==
  LET ct == Ct(s, i)
      values == ct.arguments[1].values
      variables == ct.arguments[2].variables
      original_size == Len(values)
  IN IF variables = << >> THEN Result(s, FALSE)
     ELSE IF Cardinality({variables[k] : k \in 1..original_size}) # original_size
     THEN LET terms == RegroupedTerms(values, variables, 1, {})
          IN Result([s EXCEPT !.constraints[i].arguments[1].values = terms.values,
                              !.constraints[i].arguments[2].variables = terms.variables],
                    TRUE)
     ELSE Result(s, FALSE)

\* Rule 1 of PropagatePositiveLinear, from term k on: the upper bounds.
RECURSIVE PropagateUpperBounds(_, _, _, _)
PropagateUpperBounds(s, i, k, modified) ==
  LET ct == Ct(s, i)
      rhs == Value(s, ct.arguments[3])
  IN IF k > Len(ct.arguments[1].values) THEN Result(s, modified)
     ELSE LET coef == ct.arguments[1].values[k]
              var == ct.arguments[2].variables[k]
          IN IF coef > 0 /\ CDiv(rhs, coef) < DomainMax(Dom(s, var))
             THEN PropagateUpperBounds(Tighten(s, var, 0, CDiv(rhs, coef)), i, k + 1, TRUE)
             ELSE PropagateUpperBounds(s, i, k + 1, modified)

\* Presolver::PropagatePositiveLinear.
PropagatePositiveLinear(s, i) ==
  LET ct == Ct(s, i)
      values == ct.arguments[1].values
      variables == ct.arguments[2].variables
      rhs == Value(s, ct.arguments[3])
  IN IF ct.presolve_propagation_done \/ rhs < 0 \/ variables = << >>
     THEN Result(s, FALSE)
     ELSE IF \E k \in 1..Len(values) : values[k] < 0 THEN Result(s, FALSE)
     ELSE IF \E k \in 1..Len(variables) : DomainMin(Dom(s, variables[k])) < 0
     THEN Result(s, FALSE)
     ELSE IF ct.type # "int_lin_ge"
     THEN \* Rule 1.
          LET r == PropagateUpperBounds(s, i, 1, FALSE)
          IN Result(SetPropagationDone(r.st, i, TRUE), r.modified)
     ELSE IF Len(values) = 1 /\ values[1] > 0
     THEN \* Rule 2.
          LET coef == values[1]
              var == variables[1]
              bound == CDiv(rhs + coef - 1, coef)
          IN IF bound > DomainMin(Dom(s, var))
             THEN Result(SetPropagationDone(
                           MarkAsInactive(Tighten(s, var, bound, kint64max), i), i, TRUE),
                         TRUE)
             ELSE Result(SetPropagationDone(s, i, TRUE), FALSE)
     ELSE Result(SetPropagationDone(s, i, TRUE), FALSE)

AffineMapping(variable, coefficient, offset, constraint) ==
  [variable |-> variable, coefficient |-> coefficient, offset |-> offset,
   constraint |-> constraint]

Array2DIndexMapping(variable1, coefficient, variable2, offset, constraint) ==
  [variable1 |-> variable1, coefficient |-> coefficient, variable2 |-> variable2,
   offset |-> offset, constraint |-> constraint]

\* Presolver::PresolveStoreMapping.
PresolveStoreMapping(s, i) ==
  LET ct == Ct(s, i)
      values == ct.arguments[1].values
      vars == ct.arguments[2].variables
      target == ct.target_variable
      offset == -Value(s, ct.arguments[3])
      StoreAffine(m) == Result([s EXCEPT !.affine_map_ = MapPut(@, target, m)], TRUE)
      Store2D(m) == Result([s EXCEPT !.array2d_index_map_ = MapPut(@, target, m)], TRUE)
  IN IF vars = << >> THEN Result(s, FALSE)
     ELSE IF /\ Len(values) = 2 /\ vars[1] = target /\ values[1] = -1
             /\ ~ContainsKey(s.affine_map_, target) /\ ct.strong_propagation
     THEN StoreAffine(AffineMapping(vars[2], values[2], offset, i))
     ELSE IF /\ Len(values) = 2 /\ vars[2] = target /\ values[2] = -1
             /\ ~ContainsKey(s.affine_map_, target)
     THEN StoreAffine(AffineMapping(vars[1], values[1], offset, i))
     ELSE IF /\ Len(values) = 3 /\ vars[1] = target /\ values[1] = -1 /\ values[3] = 1
             /\ ~ContainsKey(s.array2d_index_map_, target) /\ ct.strong_propagation
     THEN Store2D(Array2DIndexMapping(vars[2], values[2], vars[3], offset, i))
     ELSE IF /\ Len(values) = 3 /\ vars[1] = target /\ values[1] = -1 /\ values[2] = 1
             /\ ~ContainsKey(s.array2d_index_map_, target) /\ ct.strong_propagation
     THEN Store2D(Array2DIndexMapping(vars[3], values[3], vars[2], offset, i))
     ELSE IF /\ Len(values) = 3 /\ vars[3] = target /\ values[3] = -1 /\ values[2] = 1
             /\ ~ContainsKey(s.array2d_index_map_, target)
     THEN Store2D(Array2DIndexMapping(vars[1], values[1], vars[2], offset, i))
     ELSE IF /\ Len(values) = 3 /\ vars[3] = target /\ values[3] = -1 /\ values[1] = 1
             /\ ~ContainsKey(s.array2d_index_map_, target)
     THEN Store2D(Array2DIndexMapping(vars[2], values[2], vars[1], offset, i))
     ELSE Result(s, FALSE)

\* values[index] of a std::vector, index 0-based.  A read outside of the
\* vector is undefined behaviour: it gives some value, s.garbage.
ReadAt(s, values, index) ==
  IF index >= 0 /\ index < Len(values) THEN values[index + 1] ELSE s.garbage

InBounds(values, index) == index >= 0 /\ index < Len(values)

NoteRead(s, values, index) ==
  IF InBounds(values, index) THEN s ELSE [s EXCEPT !.out_of_bounds = TRUE]

\* IsIncreasingContiguous, for a non-empty vector.
IsIncreasingContiguous(values) ==
  \A k \in 1..(Len(values) - 1) : values[k + 1] = values[k] + 1

\* The loop of rule 1 of PresolveSimplifyElement from i on: the values at the
\* positions i * coefficient + offset - 1, for i up to last.  ok is FALSE when
\* a position is negative (the rule then gives up).
RECURSIVE AffineSample(_, _, _, _, _)
AffineSample(s, values, mapping, i, last) ==
  IF i > last THEN [ok |-> TRUE, values |-> << >>, st |-> s]
  ELSE LET index == i * mapping.coefficient + mapping.offset - 1
       IN IF index < 0 THEN [ok |-> FALSE, values |-> << >>, st |-> s]
          ELSE IF index > Len(values) THEN [ok |-> TRUE, values |-> << >>, st |-> s]
          ELSE LET rest == AffineSample(NoteRead(s, values, index), values, mapping,
                                        i + 1, last)
               IN [rest EXCEPT !.values = <<ReadAt(s, values, index)>> \o @]

\* Rules 3 and 4 of PresolveSimplifyElement, and the reduction of the array.
SimplifyElementTail(s, i) ==
  LET ct == Ct(s, i)
      index_var == Var(ct.arguments[1])
      index_domain == Dom(s, index_var)
      values == ct.arguments[2].values
  IN IF DomainHasOneValue(index_domain)
     THEN \* Rule 3.
          LET index == index_domain.values[1] - 1
              s1 == NoteRead(s, values, index)
              a0 == [type |-> "INT_VALUE",
                     values |-> Append(ct.arguments[1].values, ReadAt(s, values, index)),
                     variables |-> << >>]
          IN Result(RemoveArg(SetType(SetArgs(s1, i, <<a0>> \o Tail(ct.arguments)),
                                      i, "int_eq"), i, 1), TRUE)
     ELSE IF /\ index_domain.is_interval /\ Len(index_domain.values) = 2
             /\ DomainMax(index_domain) < Len(values)
     THEN Result([SetPropagationDone(s, i, FALSE) EXCEPT
                    !.constraints[i].arguments[2].values =
                       SubSeq(values, 1, DomainMax(index_domain))], TRUE)
     ELSE IF values # << >> /\ IsIncreasingContiguous(values)
     THEN \* Rule 4.
          LET start == values[1]
              index == Var(ct.arguments[1])
              target == Var(ct.arguments[3])
          IN IF start = 1
             THEN Result(RemoveArg(SetType(s, i, "int_eq"), i, 1), TRUE)
             ELSE Result(SetArgs(SetType(s, i, "int_lin_eq"), i,
                           <<[type |-> "INT_LIST",
                              values |-> ct.arguments[1].values \o <<-1, 1>>,
                              variables |-> << >>],
                             [type |-> "INT_VAR_REF_ARRAY", values |-> << >>,
                              variables |-> ct.arguments[2].variables \o <<target, index>>],
                             [type |-> "INT_VALUE",
                              values |-> Append(ct.arguments[3].values, 1 - start),
                              variables |-> << >>]>>
                           \o SubSeq(ct.arguments, 4, Len(ct.arguments))), TRUE)
     ELSE Result(s, FALSE)

\* The rewriting of the element constraint with a 2D index mapping.
SimplifyElement2D(s, i) ==
  LET ct == Ct(s, i)
      index_var == Var(ct.arguments[1])
      mapping == s.array2d_index_map_[index_var]
      a0 == [ct.arguments[1] EXCEPT
               !.variables = <<mapping.variable1, mapping.variable2>>,
               !.type = "INT_VAR_REF_ARRAY"]
      s1 == SetArgs(s, i, <<a0>> \o Tail(ct.arguments)
                          \o <<IntegerList(<<mapping.coefficient, 1>>),
                               IntegerValue(mapping.offset)>>)
      s2 == RemoveTargetVariable(s1, i)
      s3 == [s2 EXCEPT !.variables[index_var].active = FALSE]
  IN Result(MarkAsInactive(s3, mapping.constraint), TRUE)

\* Presolver::PresolveSimplifyElement.
PresolveSimplifyElement(s, i) ==
  LET ct == Ct(s, i)
      index_var == Var(ct.arguments[1])
      After(st) == IF ContainsKey(st.array2d_index_map_, index_var)
                   THEN SimplifyElement2D(st, i)
                   ELSE SimplifyElementTail(st, i)
  IN IF Len(ct.arguments[1].variables) > 1 THEN Result(s, FALSE)
     ELSE IF ContainsKey(s.affine_map_, index_var)
     THEN \* Rule 1.
          LET mapping == s.affine_map_[index_var]
              domain == Dom(s, mapping.variable)
              values == ct.arguments[2].values
          IN IF domain.is_interval /\ domain.values = << >> THEN Result(s, FALSE)
             ELSE IF /\ domain.values[1] = 0 /\ mapping.coefficient = 1
                     /\ mapping.offset > 1 /\ Dom(s, index_var).is_interval
             THEN \* Simple translation.
                  LET offset == mapping.offset - 1
                      size == Len(values)
                  IN Result([s EXCEPT
                       !.constraints[i].arguments[2].values =
                          SubSeq(values, offset + 1, size),
                       !.constraints[mapping.constraint].arguments[3].values[1] = -1,
                       !.affine_map_[index_var].offset = 1,
                       !.variables[index_var].domain.values =
                          <<@[1] - offset, @[2] - offset>>], TRUE)
             ELSE IF mapping.offset + mapping.coefficient > 0 /\ domain.values[1] > 0
             THEN LET sample == AffineSample(s, values, mapping, 1,
                                             domain.values[Len(domain.values)])
                  IN IF ~sample.ok THEN Result(s, FALSE)
                     ELSE LET new_values == sample.values
                              s1 == [sample.st EXCEPT
                                      !.constraints[i].arguments[1].variables[1] =
                                         mapping.variable,
                                      !.constraints[i].arguments[2].values = new_values,
                                      !.constraints[i].arguments[2].type =
                                         IF Len(new_values) = 1 THEN "INT_VALUE" ELSE @,
                                      !.constraints[i].presolve_propagation_done = FALSE]
                              s2 == Tighten(s1, mapping.variable, 1, Len(new_values))
                              s3 == MarkAsInactive(s2, mapping.constraint)
                          IN Result([s3 EXCEPT !.variables[index_var].active = FALSE], TRUE)
             ELSE After(s)
     ELSE After(s)

\* The loop of rule 2 of PresolveSimplifyExprElement from i on: the variables
\* at the positions i * coefficient + offset - 1, for i up to last.
RECURSIVE AffineSampleVars(_, _, _, _)
AffineSampleVars(vars, mapping, i, last) ==
  IF i > last THEN [ok |-> TRUE, variables |-> << >>]
  ELSE LET index == i * mapping.coefficient + mapping.offset - 1
       IN IF index < 0 THEN [ok |-> FALSE, variables |-> << >>]
          ELSE IF index >= Len(vars) THEN [ok |-> TRUE, variables |-> << >>]
          ELSE LET rest == AffineSampleVars(vars, mapping, i + 1, last)
               IN [rest EXCEPT !.variables = <<vars[index + 1]>> \o @]

\* Presolver::PresolveSimplifyExprElement.
PresolveSimplifyExprElement(s, i) ==
  LET ct == Ct(s, i)
      vars == ct.arguments[2].variables
      all_integers == \A k \in 1..Len(vars) : DomainHasOneValue(Dom(s, vars[k]))
      index_var == Var(ct.arguments[1])
  IN IF all_integers
     THEN \* Rule 1.
          Result([SetType(s, i, "array_int_element") EXCEPT
                    !.constraints[i].arguments[2] =
                       [type |-> "INT_LIST",
                        values |-> @.values
                                   \o [k \in 1..Len(vars) |-> DomainMin(Dom(s, vars[k]))],
                        variables |-> << >>]], TRUE)
     ELSE IF DomainHasOneValue(Dom(s, index_var))
     THEN \* Rule 2: the index is fixed.
          LET position == DomainMin(Dom(s, index_var)) - 1
              expr == IF InBounds(vars, position) THEN vars[position + 1] ELSE nullptr
              s1 == [NoteRead(s, vars, position) EXCEPT
                       !.constraints[i].arguments[1].variables[1] = expr]
          IN Result(RemoveArg(SetType(s1, i, "int_eq"), i, 1), TRUE)
     ELSE IF ContainsKey(s.affine_map_, index_var)
     THEN LET mapping == s.affine_map_[index_var]
              domain == Dom(s, mapping.variable)
          IN IF \/ domain.is_interval /\ domain.values = << >>
                \/ domain.values[1] # 1
                \/ mapping.offset + mapping.coefficient <= 0
             THEN Result(s, FALSE)
             ELSE LET sample == AffineSampleVars(vars, mapping, domain.values[1],
                                                 domain.values[Len(domain.values)])
                  IN IF ~sample.ok THEN Result(s, FALSE)
                     ELSE LET s1 == [s EXCEPT
                                      !.constraints[i].arguments[1].variables[1] =
                                         mapping.variable,
                                      !.constraints[i].arguments[2].variables =
                                         sample.variables,
                                      !.constraints[i].presolve_propagation_done = FALSE]
                              s2 == MarkAsInactive(s1, mapping.constraint)
                          IN Result([s2 EXCEPT !.variables[index_var].active = FALSE], TRUE)
     ELSE IF /\ Dom(s, index_var).is_interval /\ Len(Dom(s, index_var).values) = 2
             /\ DomainMax(Dom(s, index_var)) < Len(vars)
     THEN Result([SetPropagationDone(s, i, FALSE) EXCEPT
                    !.constraints[i].arguments[2].variables =
                       SubSeq(vars, 1, DomainMax(Dom(s, index_var)))], TRUE)
     ELSE Result(s, FALSE)

Has01Values(d) == DomainMin(d) = 0 /\ DomainMax(d) = 1

Is0Or1(value) == value = 0 \/ value = 1

IsReifOf(id, op) == id = "int_" \o op \o "_reif" \/ id = "bool_" \o op \o "_reif"

\* Rule 3 of PropagateReifiedComparisons: 0 force false, 1 force true,
\* 2 unknown.
ReifiedState(id, d, value, reverse) ==
  IF IsReifOf(id, "eq")
  THEN IF DomainContains(d, value)
       THEN (IF DomainHasOneValue(d) THEN 1 ELSE 2)
       ELSE 0
  ELSE IF IsReifOf(id, "ne")
  THEN IF DomainContains(d, value)
       THEN (IF DomainHasOneValue(d) THEN 0 ELSE 2)
       ELSE 1
  ELSE IF /\ (IsReifOf(id, "lt") /\ reverse) \/ (IsReifOf(id, "gt") /\ ~reverse)
          /\ ~DomainIsAllInt64(d)
  THEN IF DomainMin(d) > value THEN 1 ELSE IF DomainMax(d) <= value THEN 0 ELSE 2
  ELSE IF /\ (IsReifOf(id, "lt") /\ ~reverse) \/ (IsReifOf(id, "gt") /\ reverse)
          /\ ~DomainIsAllInt64(d)
  THEN IF DomainMax(d) < value THEN 1 ELSE IF DomainMin(d) >= value THEN 0 ELSE 2
  ELSE IF /\ (IsReifOf(id, "le") /\ reverse) \/ (IsReifOf(id, "ge") /\ ~reverse)
          /\ ~DomainIsAllInt64(d)
  THEN IF DomainMin(d) >= value THEN 1 ELSE IF DomainMax(d) < value THEN 0 ELSE 2
  ELSE IF /\ (IsReifOf(id, "le") /\ ~reverse) \/ (IsReifOf(id, "ge") /\ reverse)
          /\ ~DomainIsAllInt64(d)
  THEN IF DomainMax(d) <= value THEN 1 ELSE IF DomainMin(d) > value THEN 0 ELSE 2
  ELSE 2

\* Rules 2 and 3 of PropagateReifiedComparisons.
PropagateReifiedWithConstant(s, i) ==
  LET ct == Ct(s, i)
      id == ct.type
      a0 == ct.arguments[1]
      a1 == ct.arguments[2]
      left == a0.type = "INT_VAR_REF" /\ HasOneValue(s, a1)
      right == ~left /\ a1.type = "INT_VAR_REF" /\ HasOneValue(s, a0)
  IN IF ~left /\ ~right THEN Result(s, FALSE)
     ELSE LET var == IF left THEN Var(a0) ELSE Var(a1)
              value == IF left THEN Value(s, a1) ELSE Value(s, a0)
              reverse == right
          IN IF /\ Has01Values(Dom(s, var))
                /\ IsReifOf(id, "eq") \/ IsReifOf(id, "ne")
                /\ value = 0 \/ value = 1
             THEN \* Rule 2: the constraint is rewritten, and the rule returns false.
                  LET parity == IF value = 0 THEN ~IsReifOf(id, "eq") ELSE IsReifOf(id, "eq")
                  IN Result(SetType(SetArgs(s, i, <<IntVarRef(var), ct.arguments[3]>>), i,
                                    IF parity THEN "bool_eq" ELSE "bool_not"), FALSE)
             ELSE \* Rule 3.
                  LET state == ReifiedState(id, Dom(s, var), value, reverse)
                  IN IF state # 2
                     THEN Result(MarkAsInactive(
                                   Tighten(s, Var(ct.arguments[3]), state, state), i), TRUE)
                     ELSE Result(s, FALSE)

\* Presolver::PropagateReifiedComparisons.
PropagateReifiedComparisons(s, i) ==
  LET ct == Ct(s, i)
      id == ct.type
      a0 == ct.arguments[1]
      a1 == ct.arguments[2]
      a2 == ct.arguments[3]
  IN IF /\ a0.type = "INT_VAR_REF" /\ a1.type = "INT_VAR_REF"
        /\ a0.variables[1] = a1.variables[1]
        /\ LET value == BoolToInt(IsReifOf(id, "eq") \/ IsReifOf(id, "ge")
                                  \/ IsReifOf(id, "le"))
           IN (HasOneValue(s, a2) /\ Value(s, a2) = value) \/ ~HasOneValue(s, a2)
     THEN \* Rule 1.
          LET value == BoolToInt(IsReifOf(id, "eq") \/ IsReifOf(id, "ge")
                                 \/ IsReifOf(id, "le"))
          IN Result(MarkAsInactive(Tighten(s, a2.variables[1], value, value), i), TRUE)
     ELSE PropagateReifiedWithConstant(s, i)

\* Presolver::StoreIntEqReif.  int_eq_reif_map_[first][second] is the entry
\* of the pair <<first, second>>.
StoreIntEqReif(s, i) ==
  LET ct == Ct(s, i)
  IN IF /\ ct.arguments[1].type = "INT_VAR_REF"
        /\ ct.arguments[2].type = "INT_VAR_REF"
        /\ ct.arguments[3].type = "INT_VAR_REF"
     THEN LET first == Var(ct.arguments[1])
              second == Var(ct.arguments[2])
              boolvar == Var(ct.arguments[3])
          IN IF ContainsKey(s.int_eq_reif_map_, <<first, second>>) THEN Result(s, FALSE)
             ELSE Result([s EXCEPT !.int_eq_reif_map_ =
                            MapPut(MapPut(@, <<first, second>>, boolvar),
                                   <<second, first>>, boolvar)], TRUE)
     ELSE Result(s, FALSE)

\* Presolver::SimplifyIntNeReif.
SimplifyIntNeReif(s, i) ==
  LET ct == Ct(s, i)
  IN IF /\ ct.arguments[1].type = "INT_VAR_REF"
        /\ ct.arguments[2].type = "INT_VAR_REF"
        /\ ct.arguments[3].type = "INT_VAR_REF"
        /\ ContainsKey(s.int_eq_reif_map_, <<Var(ct.arguments[1]), Var(ct.arguments[2])>>)
     THEN LET opposite == s.int_eq_reif_map_[<<Var(ct.arguments[1]), Var(ct.arguments[2])>>]
              s1 == [s EXCEPT !.constraints[i].arguments[1].variables[1] = opposite,
                              !.constraints[i].arguments[2].variables[1] =
                                 Var(ct.arguments[3])]
          IN Result(SetType(RemoveArg(s1, i, 2), i, "bool_not"), TRUE)
     ELSE Result(s, FALSE)

\* Presolver::RemoveAbsFromIntLeReif.
RemoveAbsFromIntLeReif(s, i) ==
  LET ct == Ct(s, i)
  IN IF HasOneValue(s, ct.arguments[2]) /\ ContainsKey(s.abs_map_, Var(ct.arguments[1]))
     THEN LET s1 == [s EXCEPT !.constraints[i].arguments[1].variables[1] =
                                 s.abs_map_[Var(ct.arguments[1])]]
              value == Value(s, ct.arguments[2])
          IN IF value = 0 THEN Result(SetType(s1, i, "int_eq_reif"), TRUE)
             ELSE Result(RemoveTargetVariable(
                           [SetType(s1, i, "set_in_reif") EXCEPT
                              !.constraints[i].arguments[2].type = "INT_INTERVAL",
                              !.constraints[i].arguments[2].values =
                                 Append([@ EXCEPT ![1] = -value], value)], i), TRUE)
     ELSE Result(s, FALSE)

\* The abs map is stored by PresolveOneConstraint itself.
StoreAbs(s, i) ==
  LET ct == Ct(s, i)
  IN IF ct.type = "int_abs" /\ ~ContainsKey(s.abs_map_, Var(ct.arguments[2]))
     THEN Result([s EXCEPT !.abs_map_ =
                    MapPut(@, Var(ct.arguments[2]), Var(ct.arguments[1]))], TRUE)
     ELSE Result(s, FALSE)

\* int_eq_reif, int_ne_reif and int_ne of an absolute value with 0, rewritten
\* by PresolveOneConstraint itself.
RemoveAbs(s, i) ==
  LET ct == Ct(s, i)
  IN IF /\ ct.type \in {"int_eq_reif", "int_ne_reif", "int_ne"}
        /\ HasOneValue(s, ct.arguments[2])
        /\ Value(s, ct.arguments[2]) = 0
        /\ ContainsKey(s.abs_map_, Var(ct.arguments[1]))
     THEN Result([s EXCEPT !.constraints[i].arguments[1].variables[1] =
                             s.abs_map_[Var(ct.arguments[1])]], TRUE)
     ELSE Result(s, FALSE)


\* bool_xor with the argument at the 0-based position pos fixed.
BoolXorRemove(s, i, pos) ==
  LET value == Value(s, Ct(s, i).arguments[pos + 1])
  IN Result(SetType(RemoveArg(s, i, pos), i,
                    IF value = 1 THEN "bool_not" ELSE "bool_eq"), TRUE)

\* Presolver::PresolveBoolXor.
PresolveBoolXor(s, i) ==
  LET ct == Ct(s, i)
  IN IF HasOneValue(s, ct.arguments[1]) THEN BoolXorRemove(s, i, 0)
     ELSE IF HasOneValue(s, ct.arguments[2]) THEN BoolXorRemove(s, i, 1)
     ELSE IF HasOneValue(s, ct.arguments[3]) THEN BoolXorRemove(s, i, 2)
     ELSE Result(s, FALSE)

\* Presolver::PresolveBoolNot.
PresolveBoolNot(s, i) ==
  LET ct == Ct(s, i)
      a0 == ct.arguments[1]
      a1 == ct.arguments[2]
  IN IF HasOneValue(s, a0) /\ IsVariable(a1)
     THEN LET value == BoolToInt(Value(s, a0) = 0)
          IN Result(MarkAsInactive(Tighten(s, Var(a1), value, value), i), TRUE)
     ELSE IF HasOneValue(s, a1) /\ IsVariable(a0)
     THEN LET value == BoolToInt(Value(s, a1) = 0)
          IN Result(MarkAsInactive(Tighten(s, Var(a0), value, value), i), TRUE)
     ELSE IF /\ ct.target_variable = nullptr
             /\ s.variables[Var(a0)].defining_constraint = 0
             /\ ~DomainHasOneValue(Dom(s, Var(a0)))
     THEN Result(SetTarget(s, i, Var(a0)), TRUE)
     ELSE IF /\ ct.target_variable = nullptr
             /\ s.variables[Var(a1)].defining_constraint = 0
             /\ ~DomainHasOneValue(Dom(s, Var(a1)))
     THEN Result(SetTarget(s, i, Var(a1)), TRUE)
     ELSE Result(s, FALSE)

\* Presolver::PresolveBoolClause.
PresolveBoolClause(s, i) ==
  LET ct == Ct(s, i)
      a0 == ct.arguments[1]
      a1 == ct.arguments[2]
  IN IF Len(a0.variables) = 1 /\ Len(a1.variables) = 1
     THEN \* Rule 1.
          Result(SetType(SetArgs(s, i,
                   <<[a0 EXCEPT !.type = "INT_VAR_REF", !.variables = a1.variables],
                     [a1 EXCEPT !.type = "INT_VAR_REF", !.variables = a0.variables]>>),
                   i, "bool_le"), TRUE)
     ELSE IF Len(a0.variables) = 0 /\ Len(a0.values) = 1 /\ Len(a1.variables) = 1
     THEN \* Rule 2.
          IF a0.values[1] # 0 THEN Result(MarkAsInactive(s, i), TRUE)
          ELSE Result(SetType(SetArgs(s, i,
                        <<[type |-> "INT_VAR_REF", values |-> << >>,
                           variables |-> a1.variables],
                          [type |-> "INT_VALUE", values |-> Append(a1.values, 0),
                           variables |-> << >>]>>), i, "bool_eq"), TRUE)
     ELSE IF Len(a1.variables) = 0 /\ Len(a1.values) = 1
     THEN \* Rule 3.
          IF a1.values[1] # 0
          THEN IF Len(a0.variables) > 1 THEN Result(SetType(s, i, "array_bool_or"), TRUE)
               ELSE IF Len(a0.variables) = 1
               THEN Result(SetType(
                             [s EXCEPT !.constraints[i].arguments[1].type = "INT_VAR_REF",
                                       !.constraints[i].arguments[2].type = "INT_VALUE"],
                             i, "bool_eq"), TRUE)
               ELSE Result(s, FALSE)
          ELSE Result(MarkAsInactive(s, i), TRUE)
     ELSE Result(s, FALSE)

\* The rewriting of rules 2 to 5 of SimplifyIntLinEqReif.
IntLinEqReifAsBool(s, i, type, var, target) ==
  LET ct == Ct(s, i)
      a0 == [ct.arguments[1] EXCEPT !.type = "INT_VAR_REF", !.values = << >>,
                                    !.variables = Append(@, var)]
      a1 == [ct.arguments[2] EXCEPT !.type = "INT_VAR_REF", !.variables = <<target>>]
  IN Result(SetType(SetArgs(s, i, <<a0, a1>>), i, type), TRUE)

\* Presolver::SimplifyIntLinEqReif.
SimplifyIntLinEqReif(s, i) ==
  LET ct == Ct(s, i)
  IN IF ct.arguments[1].values = <<1, 1>> /\ Value(s, ct.arguments[3]) = 1
     THEN LET left == ct.arguments[2].variables[1]
              right == ct.arguments[2].variables[2]
              target == Var(ct.arguments[4])
          IN IF Has01Values(Dom(s, left)) /\ Has01Values(Dom(s, right))
             THEN \* Rule 1.
                  Result(SetType(SetArgs(s, i,
                    <<[ct.arguments[1] EXCEPT !.type = "INT_VAR_REF", !.values = << >>,
                                              !.variables = Append(@, left)],
                      [ct.arguments[2] EXCEPT !.type = "INT_VAR_REF",
                                              !.variables = <<right>>],
                      [ct.arguments[3] EXCEPT !.type = "INT_VAR_REF", !.values = << >>,
                                              !.variables = Append(@, target)]>>),
                    i, "bool_ne_reif"), TRUE)
             ELSE IF /\ Has01Values(Dom(s, right)) /\ DomainHasOneValue(Dom(s, left))
                     /\ Is0Or1(DomainMin(Dom(s, left)))
             THEN IntLinEqReifAsBool(s, i, IF DomainMin(Dom(s, left)) = 0
                                           THEN "bool_eq" ELSE "bool_not", right, target)
             ELSE IF /\ Has01Values(Dom(s, left)) /\ DomainHasOneValue(Dom(s, right))
                     /\ Is0Or1(DomainMin(Dom(s, right)))
             THEN IntLinEqReifAsBool(s, i, IF DomainMin(Dom(s, right)) = 0
                                           THEN "bool_eq" ELSE "bool_not", left, target)
             ELSE Result(s, FALSE)
     ELSE Result(s, FALSE)

\* Presolver::PresolveIntMod.
PresolveIntMod(s, i) ==
  LET ct == Ct(s, i)
  IN IF /\ ct.target_variable # nullptr
        /\ Var(ct.arguments[3]) = ct.target_variable
        /\ HasOneValue(s, ct.arguments[3])
     THEN Result(RemoveTargetVariable(s, i), TRUE)
     ELSE Result(s, FALSE)


\* The last rule of PresolveOneConstraint: a fixed target variable is no
\* longer a target.
RemoveFixedTarget(s, i) ==
  LET ct == Ct(s, i)
  IN IF ct.target_variable # nullptr /\ DomainHasOneValue(Dom(s, ct.target_variable))
     THEN Result([s EXCEPT !.variables[ct.target_variable].defining_constraint = 0,
                           !.constraints[i].target_variable = nullptr], TRUE)
     ELSE Result(s, FALSE)

(***************************************************************************)
(* PresolveOneConstraint: the rules in the order of the code.  A CALL_TYPE, *)
(* CALL_PREFIX or CALL_SUFFIX rule is offered to a constraint that is still *)
(* active and whose type matches; an INLINE rule tests the constraint       *)
(* itself.                                                                  *)
(***************************************************************************)
Call(kind, t, method) == [kind |-> kind, t |-> t, method |-> method]

Rules ==
  << Call("SUFFIX", "_reif", "Unreify"),
     Call("TYPE", "bool2int", "PresolveBool2Int"),
     Call("TYPE", "int_le", "PresolveInequalities"),
     Call("TYPE", "int_lt", "PresolveInequalities"),
     Call("TYPE", "int_ge", "PresolveInequalities"),
     Call("TYPE", "int_gt", "PresolveInequalities"),
     Call("TYPE", "bool_le", "PresolveInequalities"),
     Call("TYPE", "bool_lt", "PresolveInequalities"),
     Call("TYPE", "bool_ge", "PresolveInequalities"),
     Call("TYPE", "bool_gt", "PresolveInequalities"),
     Call("INLINE", "", "StoreAbs"),
     Call("TYPE", "int_eq_reif", "StoreIntEqReif"),
     Call("TYPE", "int_ne_reif", "SimplifyIntNeReif"),
     Call("INLINE", "", "RemoveAbs"),
     Call("TYPE", "int_le_reif", "RemoveAbsFromIntLeReif"),
     Call("TYPE", "int_eq", "PresolveIntEq"),
     Call("TYPE", "bool_eq", "PresolveIntEq"),
     Call("TYPE", "int_ne", "PresolveIntNe"),
     Call("TYPE", "bool_not", "PresolveIntNe"),
     Call("TYPE", "set_in", "PresolveSetIn"),
     Call("TYPE", "array_bool_and", "PresolveArrayBoolAnd"),
     Call("TYPE", "array_bool_or", "PresolveArrayBoolOr"),
     Call("TYPE", "bool_eq_reif", "PresolveBoolEqNeReif"),
     Call("TYPE", "bool_ne_reif", "PresolveBoolEqNeReif"),
     Call("TYPE", "bool_xor", "PresolveBoolXor"),
     Call("TYPE", "bool_not", "PresolveBoolNot"),
     Call("TYPE", "bool_clause", "PresolveBoolClause"),
     Call("TYPE", "int_div", "PresolveIntDiv"),
     Call("TYPE", "int_times", "PresolveIntTimes"),
     Call("TYPE", "int_lin_gt", "PresolveIntLinGt"),
     Call("TYPE", "int_lin_lt", "PresolveIntLinLt"),
     Call("PREFIX", "int_lin_", "PresolveLinear"),
     Call("PREFIX", "int_lin_", "RegroupLinear"),
     Call("PREFIX", "int_lin_", "SimplifyUnaryLinear"),
     Call("PREFIX", "int_lin_", "SimplifyBinaryLinear"),
     Call("TYPE", "int_lin_eq", "PropagatePositiveLinear"),
     Call("TYPE", "int_lin_le", "PropagatePositiveLinear"),
     Call("TYPE", "int_lin_ge", "PropagatePositiveLinear"),
     Call("TYPE", "int_lin_eq", "CreateLinearTarget"),
     Call("TYPE", "int_lin_eq", "PresolveStoreMapping"),
     Call("TYPE", "int_lin_eq_reif", "CheckIntLinReifBounds"),
     Call("TYPE", "int_lin_eq_reif", "SimplifyIntLinEqReif"),
     Call("TYPE", "array_int_element", "PresolveSimplifyElement"),
     Call("TYPE", "array_int_element", "PresolveArrayIntElement"),
     Call("TYPE", "array_var_int_element", "PresolveSimplifyExprElement"),
     Call("TYPE", "int_eq_reif", "PropagateReifiedComparisons"),
     Call("TYPE", "int_ne_reif", "PropagateReifiedComparisons"),
     Call("TYPE", "int_le_reif", "PropagateReifiedComparisons"),
     Call("TYPE", "int_lt_reif", "PropagateReifiedComparisons"),
     Call("TYPE", "int_ge_reif", "PropagateReifiedComparisons"),
     Call("TYPE", "int_gt_reif", "PropagateReifiedComparisons"),
     Call("TYPE", "bool_eq_reif", "PropagateReifiedComparisons"),
     Call("TYPE", "bool_ne_reif", "PropagateReifiedComparisons"),
     Call("TYPE", "bool_le_reif", "PropagateReifiedComparisons"),
     Call("TYPE", "bool_lt_reif", "PropagateReifiedComparisons"),
     Call("TYPE", "bool_ge_reif", "PropagateReifiedComparisons"),
     Call("TYPE", "bool_gt_reif", "PropagateReifiedComparisons"),
     Call("TYPE", "int_mod", "PresolveIntMod"),
     Call("INLINE", "", "RemoveFixedTarget") >>

\* The test of CALL_TYPE, CALL_PREFIX and CALL_SUFFIX.
Offered(s, i, rule) ==
  LET ct == Ct(s, i)
  IN CASE rule.kind = "TYPE" -> ct.active /\ ct.type = rule.t
       [] rule.kind = "PREFIX" -> ct.active /\ HasPrefixString(ct.type, rule.t)
       [] rule.kind = "SUFFIX" -> ct.active /\ HasSuffixString(ct.type, rule.t)
       [] OTHER -> TRUE

\* The rule of the given name, applied to constraint i.
Method(method, s, i) ==
  CASE method = "Unreify" -> Unreify(s, i)
    [] method = "PresolveBool2Int" -> PresolveBool2Int(s, i)
    [] method = "PresolveInequalities" -> PresolveInequalities(s, i)
    [] method = "StoreAbs" -> StoreAbs(s, i)
    [] method = "StoreIntEqReif" -> StoreIntEqReif(s, i)
    [] method = "SimplifyIntNeReif" -> SimplifyIntNeReif(s, i)
    [] method = "RemoveAbs" -> RemoveAbs(s, i)
    [] method = "RemoveAbsFromIntLeReif" -> RemoveAbsFromIntLeReif(s, i)
    [] method = "PresolveIntEq" -> PresolveIntEq(s, i)
    [] method = "PresolveIntNe" -> PresolveIntNe(s, i)
    [] method = "PresolveSetIn" -> PresolveSetIn(s, i)
    [] method = "PresolveArrayBoolAnd" -> PresolveArrayBoolAnd(s, i)
    [] method = "PresolveArrayBoolOr" -> PresolveArrayBoolOr(s, i)
    [] method = "PresolveBoolEqNeReif" -> PresolveBoolEqNeReif(s, i)
    [] method = "PresolveBoolXor" -> PresolveBoolXor(s, i)
    [] method = "PresolveBoolNot" -> PresolveBoolNot(s, i)
    [] method = "PresolveBoolClause" -> PresolveBoolClause(s, i)
    [] method = "PresolveIntDiv" -> PresolveIntDiv(s, i)
    [] method = "PresolveIntTimes" -> PresolveIntTimes(s, i)
    [] method = "PresolveIntLinGt" -> PresolveIntLinGt(s, i)
    [] method = "PresolveIntLinLt" -> PresolveIntLinLt(s, i)
    [] method = "PresolveLinear" -> PresolveLinear(s, i)
    [] method = "RegroupLinear" -> RegroupLinear(s, i)
    [] method = "SimplifyUnaryLinear" -> SimplifyUnaryLinear(s, i)
    [] method = "SimplifyBinaryLinear" -> SimplifyBinaryLinear(s, i)
    [] method = "PropagatePositiveLinear" -> PropagatePositiveLinear(s, i)
    [] method = "CreateLinearTarget" -> CreateLinearTarget(s, i)
    [] method = "PresolveStoreMapping" -> PresolveStoreMapping(s, i)
    [] method = "CheckIntLinReifBounds" -> CheckIntLinReifBounds(s, i)
    [] method = "SimplifyIntLinEqReif" -> SimplifyIntLinEqReif(s, i)
    [] method = "PresolveSimplifyElement" -> PresolveSimplifyElement(s, i)
    [] method = "PresolveArrayIntElement" -> PresolveArrayIntElement(s, i)
    [] method = "PresolveSimplifyExprElement" -> PresolveSimplifyExprElement(s, i)
    [] method = "PropagateReifiedComparisons" -> PropagateReifiedComparisons(s, i)
    [] method = "PresolveIntMod" -> PresolveIntMod(s, i)
    [] method = "RemoveFixedTarget" -> RemoveFixedTarget(s, i)

\* Presolver::ApplyRule: the rule is called, and its answer is returned.
ApplyRule(s, i, method) == Method(method, s, i)

\* The rules from the k-th on, each offered in turn to constraint i; changed
\* is the disjunction of their answers.
RECURSIVE PresolveFrom(_, _, _, _)
PresolveFrom(s, i, k, changed) ==
  IF k > Len(Rules) THEN Result(s, changed)
  ELSE IF Offered(s, i, Rules[k])
       THEN CHOOSE result \in {PresolveFrom(r.st, i, k + 1, changed \/ r.modified) :
                                 r \in {ApplyRule(s, i, Rules[k].method)}} : TRUE
       ELSE PresolveFrom(s, i, k + 1, changed)

\* Presolver::PresolveOneConstraint.
PresolveOneConstraint(s, i) == PresolveFrom(s, i, 1, FALSE)


(***************************************************************************)
(* The scans of the model before the main loop.                            *)
(***************************************************************************)
\* StoreDifference that looks for the coefficients [1, 1, -1] of a sum
\* instead of those of a difference.
StoreDifferenceOfSum(s, i) ==
  LET ct == Ct(s, i)
      values == ct.arguments[1].values
      vars == ct.arguments[2].variables
  IN IF /\ Value(s, ct.arguments[3]) = 0
        /\ Len(values) = 3
        /\ values = <<1, 1, -1>> \/ values = <<-1, -1, 1>>
     THEN [s EXCEPT !.difference_map_ =
             MapPut(MapPut(@, vars[1], <<vars[3], vars[2]>>),
                    vars[3], <<vars[1], vars[2]>>)]
     ELSE s

\* Presolver::StoreDifference.
StoreDifference(s, i) ==
  LET ct == Ct(s, i)
      values == ct.arguments[1].values
      vars == ct.arguments[2].variables
  IN IF /\ Value(s, ct.arguments[3]) = 0
        /\ Len(values) = 3
        /\ values = <<1, -1, 1>> \/ values = <<-1, 1, -1>>
     THEN [s EXCEPT !.difference_map_ =
             MapPut(MapPut(@, vars[1], <<vars[3], vars[2]>>),
                    vars[3], <<vars[1], vars[2]>>)]
     ELSE s

\* The first loop of FirstPassModelScan, from constraint i on.
RECURSIVE StoreDifferences(_, _)
StoreDifferences(s, i) ==
  IF i > Len(s.constraints) THEN s
  ELSE IF Ct(s, i).active /\ Ct(s, i).type = "int_lin_eq"
       THEN StoreDifferences(StoreDifference(s, i), i + 1)
       ELSE StoreDifferences(s, i + 1)

\* Presolver::FirstPassModelScan.  The search annotations are the sequence of
\* the variables they hold.
FirstPassModelScan(s) ==
  [StoreDifferences(s, 1) EXCEPT
     !.decision_variables_ = @ \cup Range(s.search_annotations)]

\* The variable and the value of an int_eq_reif or int_ne_reif of a variable
\* and a constant, as MergeIntEqNe reads them; the variable is nullptr for
\* another constraint.
VarAndValue(s, ct) ==
  LET a0 == ct.arguments[1]
      a1 == ct.arguments[2]
  IN IF a0.values = << >> /\ a1.variables = << >>
     THEN [var |-> Var(a0), value |-> Value(s, a1)]
     ELSE IF a1.values = << >> /\ a0.variables = << >>
     THEN [var |-> Var(a1), value |-> Value(s, a0)]
     ELSE [var |-> nullptr, value |-> 0]

\* The block of MergeIntEqNe that deactivates the duplicate without
\* substituting its Boolean.
MergeOneWithoutSubstitution(s, i, map) ==
  LET ct == Ct(s, i)
      vv == VarAndValue(s, ct)
  IN IF vv.var = nullptr THEN [st |-> s, map |-> map]
     ELSE LET boolvar == Var(ct.arguments[3])
              key == <<vv.var, vv.value>>
          IN IF ~ContainsKey(map, key)
             THEN [st |-> s, map |-> MapPut(map, key, boolvar)]
             ELSE [st |-> MarkAsInactive(s, i), map |-> map]

\* One of the two blocks of the loop of MergeIntEqNe, on constraint i: map is
\* the local map of the type, keyed by the variable and the value.
MergeOne(s, i, map) ==
  LET ct == Ct(s, i)
      vv == VarAndValue(s, ct)
  IN IF vv.var = nullptr THEN [st |-> s, map |-> map]
     ELSE LET boolvar == Var(ct.arguments[3])
              key == <<vv.var, vv.value>>
          IN IF ~ContainsKey(map, key)
             THEN [st |-> s, map |-> MapPut(map, key, boolvar)]
             ELSE [st |-> AddVariableSubstition(MarkAsInactive(s, i), map[key], boolvar),
                   map |-> map]

\* The loop of MergeIntEqNe from constraint i on.
RECURSIVE MergeIntEqNeFrom(_, _, _, _)
MergeIntEqNeFrom(s, i, int_eq_reif_map, int_ne_reif_map) ==
  IF i > Len(s.constraints) THEN s
  ELSE LET ct == Ct(s, i)
       IN IF ~ct.active THEN MergeIntEqNeFrom(s, i + 1, int_eq_reif_map, int_ne_reif_map)
          ELSE IF ct.type = "int_eq_reif" /\ ct.arguments[3].values = << >>
          THEN LET r == MergeOne(s, i, int_eq_reif_map)
               IN MergeIntEqNeFrom(r.st, i + 1, r.map, int_ne_reif_map)
          ELSE IF ct.type = "int_ne_reif" /\ ct.arguments[3].values = << >>
          THEN LET r == MergeOne(s, i, int_ne_reif_map)
               IN MergeIntEqNeFrom(r.st, i + 1, int_eq_reif_map, r.map)
          ELSE MergeIntEqNeFrom(s, i + 1, int_eq_reif_map, int_ne_reif_map)

\* Presolver::MergeIntEqNe.
MergeIntEqNe(s) == MergeIntEqNeFrom(s, 1, EmptyMap, EmptyMap)

\* The variables of all the arguments of a constraint.
ArgumentVariables(ct) ==
  UNION {Range(ct.arguments[k].variables) : k \in 1..Len(ct.arguments)}

\* The rebuilding of var_to_constraints_ at the start of Run.
BuildVarToConstraints(s) ==
  LET vars == UNION {ArgumentVariables(Ct(s, i)) : i \in 1..Len(s.constraints)}
  IN [v \in vars |-> {i \in 1..Len(s.constraints) : v \in ArgumentVariables(Ct(s, i))}]

(***************************************************************************)
(* SubstituteEverywhere.                                                   *)
(***************************************************************************)
\* The variables FindRepresentativeOfVar is called on.
LookedUp(s, impacted) ==
  UNION { UNION {Range(Ct(s, i).arguments[k].variables) :
                   k \in {k \in 1..Len(Ct(s, i).arguments) :
                            Ct(s, i).arguments[k].type
                              \in {"INT_VAR_REF", "INT_VAR_REF_ARRAY"}}}
            \cup {Ct(s, i).target_variable} : i \in impacted }
    \cup Range(s.search_annotations)
    \cup UNION {{s.output[k].variable} \cup Range(s.output[k].flat_variables) :
                  k \in 1..Len(s.output)}

\* The variables on the path from var to its top parent, the top parent left
\* out: the keys FindRepresentativeOfVar attaches to the top parent.
RECURSIVE PathOf(_, _)
PathOf(map, var) ==
  IF ContainsKey(map, var) /\ map[var] # var THEN {var} \cup PathOf(map, map[var])
  ELSE {}

\* The representative map after the calls of FindRepresentativeOfVar on vars.
Compressed(map, vars) ==
  LET attached == UNION {PathOf(map, v) : v \in vars}
  IN [k \in DOMAIN map |-> IF k \in attached THEN TopParent(map, k) ELSE map[k]]

\* The arguments of a constraint, its variables replaced.
SubstituteArguments(map, arguments) ==
  [k \in 1..Len(arguments) |->
     IF arguments[k].type \in {"INT_VAR_REF", "INT_VAR_REF_ARRAY"}
     THEN [arguments[k] EXCEPT !.variables =
             [j \in 1..Len(@) |-> TopParent(map, @[j])]]
     ELSE arguments[k]]

\* The last loop of SubstituteEverywhere, on the keys not yet visited.
RECURSIVE MergeDomains(_, _, _)
MergeDomains(s, map, keys) ==
  IF keys = {} THEN s
  ELSE LET from == CHOOSE k \in keys : TRUE
           to == map[from]
       IN MergeDomains(SetDomain(s, to, IntersectWithDomain(Dom(s, to), Dom(s, from))),
                       map, keys \ {from})

\* Presolver::SubstituteEverywhere.
SubstituteEverywhere(s) ==
  LET map == s.var_representative_map_
      contains == UNION {FindWithDefault(s.var_to_constraints_, k, {}) : k \in DOMAIN map}
      impacted == {i \in contains : Ct(s, i).active}
      Rep(v) == IF v = nullptr THEN nullptr ELSE TopParent(map, v)
      new_vars(i) == {Rep(v) : v \in {v \in ArgumentVariables(Ct(s, i)) : Rep(v) # v}}
      touched == UNION {new_vars(i) : i \in impacted}
      s1 == [s EXCEPT
               !.constraints =
                  [i \in 1..Len(@) |->
                     IF i \in impacted
                     THEN [@[i] EXCEPT
                             !.arguments = SubstituteArguments(map, @),
                             !.target_variable = Rep(@)]
                     ELSE @[i]],
               !.var_to_constraints_ =
                  [v \in DOMAIN @ \cup DOMAIN map \cup touched |->
                     FindWithDefault(@, v, {})
                       \cup {i \in impacted :
                               \E k \in 1..Len(Ct(s, i).arguments) :
                                 /\ Ct(s, i).arguments[k].type
                                      \in {"INT_VAR_REF", "INT_VAR_REF_ARRAY"}
                                 /\ \E w \in Range(Ct(s, i).arguments[k].variables) :
                                      Rep(w) # w /\ Rep(w) = v}],
               !.search_annotations = [k \in 1..Len(@) |-> Rep(@[k])],
               !.output = [k \in 1..Len(@) |->
                             [variable |-> Rep(@[k].variable),
                              flat_variables |->
                                [j \in 1..Len(@[k].flat_variables) |->
                                   Rep(@[k].flat_variables[j])]]],
               !.var_representative_map_ = Compressed(map, LookedUp(s, impacted))]
  IN MergeDomains(s1, s1.var_representative_map_, DOMAIN s1.var_representative_map_)


(***************************************************************************)
(* The state: the model (variables, constraints, search annotations,       *)
(* output), the members of the Presolver, and the position of Run.          *)
(***************************************************************************)
VARIABLES
  variables,             \* Model: the IntegerVariable of each name
  constraints,           \* Model::constraints()
  search_annotations,    \* Model::search_annotations(), their variables
  output,                \* Model::output()
  difference_map_,
  abs_map_,
  affine_map_,
  array2d_index_map_,
  int_eq_reif_map_,
  var_representative_map_,
  var_to_constraints_,
  decision_variables_,
  out_of_bounds,         \* a rule has read a vector outside of its bounds
  check_failed,          \* a CHECK has failed: the process aborts
  pc,                    \* the position of Run
  index,                 \* the position of the sweep in constraints()
  changed,               \* `changed` of the main loop
  changed_since_start,   \* `changed_since_start` of Run
  runs,                  \* the number of calls of Run
  model0,                \* the input model of the first call
  substituted,           \* every substitution applied so far
  snapshot,              \* the model when the first call returned
  rule                   \* the position of PresolveOneConstraint in its rules

vars ==
  << variables, constraints, search_annotations, output, difference_map_, abs_map_,
     affine_map_, array2d_index_map_, int_eq_reif_map_, var_representative_map_,
     var_to_constraints_, decision_variables_, out_of_bounds, check_failed, pc, index,
     changed, changed_since_start, runs, model0, substituted, snapshot, rule >>

\* The values an out-of-bounds read may give.
Garbage == {0, 7}

\* The state the rules work on.
State(g) ==
  [variables |-> variables, constraints |-> constraints,
   search_annotations |-> search_annotations, output |-> output,
   difference_map_ |-> difference_map_, abs_map_ |-> abs_map_,
   affine_map_ |-> affine_map_, array2d_index_map_ |-> array2d_index_map_,
   int_eq_reif_map_ |-> int_eq_reif_map_,
   var_representative_map_ |-> var_representative_map_,
   var_to_constraints_ |-> var_to_constraints_,
   decision_variables_ |-> decision_variables_,
   out_of_bounds |-> out_of_bounds, check_failed |-> check_failed, garbage |-> g]

\* The state s becomes the next state.
Install(s) ==
  /\ variables' = s.variables
  /\ constraints' = s.constraints
  /\ search_annotations' = s.search_annotations
  /\ output' = s.output
  /\ difference_map_' = s.difference_map_
  /\ abs_map_' = s.abs_map_
  /\ affine_map_' = s.affine_map_
  /\ array2d_index_map_' = s.array2d_index_map_
  /\ int_eq_reif_map_' = s.int_eq_reif_map_
  /\ var_representative_map_' = s.var_representative_map_
  /\ var_to_constraints_' = s.var_to_constraints_
  /\ decision_variables_' = s.decision_variables_
  /\ out_of_bounds' = s.out_of_bounds
  /\ check_failed' = s.check_failed

\* The model, as the claims compare it.
TheModel == [variables |-> variables, constraints |-> constraints]

\* A failed CHECK ends the process; otherwise Run goes on at `next`.
Goto(s, next) == pc' = IF s.check_failed THEN "aborted" ELSE next

(***************************************************************************)
(* Run, step by step.                                                      *)
(***************************************************************************)
\* Run up to the first flush: var_to_constraints_ is rebuilt if empty, the
\* model is scanned, and the int_eq_reif and int_ne_reif are merged.
RunStart ==
  /\ pc = "idle"
  /\ \E s1 \in {IF var_to_constraints_ = EmptyMap
                 THEN [State(0) EXCEPT !.var_to_constraints_ =
                                          BuildVarToConstraints(State(0))]
                 ELSE State(0)} :
       \E s2 \in {MergeIntEqNe(FirstPassModelScan(s1))} :
         Install(s2) /\ Goto(s2, "merge_flush")
  /\ changed_since_start' = FALSE
  /\ UNCHANGED <<index, changed, runs, model0, substituted, snapshot>>
  /\ UNCHANGED rule

\* The substitutions recorded are applied, and the representative map is
\* cleared: after MergeIntEqNe, after the bool2int pass, and in the main
\* loop.
FlushSubstitutions ==
  /\ pc \in {"merge_flush", "bool2int_flush", "sweep_flush"}
  /\ \E s1 \in {IF var_representative_map_ # EmptyMap
                 THEN [SubstituteEverywhere(State(0)) EXCEPT
                         !.var_representative_map_ = EmptyMap]
                 ELSE State(0)} :
       /\ Install(s1)
       /\ Goto(s1, CASE pc = "merge_flush" -> "bool2int"
                     [] pc = "bool2int_flush" -> "sweep"
                     [] pc = "sweep_flush" -> "sweep_end")
  /\ substituted' =
       [v \in DOMAIN substituted \cup DOMAIN var_representative_map_ |->
          IF v \in DOMAIN var_representative_map_
          THEN var_representative_map_[v] ELSE substituted[v]]
  /\ index' = IF pc = "bool2int_flush" THEN 1 ELSE index
  /\ changed' = CASE pc = "merge_flush" -> changed
                  [] pc = "bool2int_flush" -> FALSE
                  [] pc = "sweep_flush" -> TRUE
  /\ UNCHANGED <<changed_since_start, runs, model0, snapshot>>
  /\ UNCHANGED rule

\* The loop of the bool2int pass from constraint i on.
RECURSIVE Bool2IntFrom(_, _, _)
Bool2IntFrom(s, i, modified) ==
  IF i > Len(s.constraints) THEN Result(s, modified)
  ELSE IF Ct(s, i).active /\ Ct(s, i).type = "bool2int"
       THEN CHOOSE result \in {Bool2IntFrom(r.st, i + 1, modified \/ r.modified) :
                                 r \in {PresolveBool2Int(s, i)}} : TRUE
       ELSE Bool2IntFrom(s, i + 1, modified)

\* The bool2int predicates are presolved first.
Bool2IntPass ==
  /\ pc = "bool2int"
  /\ \E r \in {Bool2IntFrom(State(0), 1, FALSE)} :
       /\ Install(r.st)
       /\ Goto(r.st, "bool2int_flush")
       /\ changed_since_start' = r.modified
  /\ UNCHANGED <<index, changed, runs, model0, substituted, snapshot>>
  /\ UNCHANGED rule

\* One iteration of the sweep of the main loop without the break of lines
\* 2257-2259: the sweep goes on to the next constraint with a substitution
\* recorded, and the substitutions are applied when the sweep is over.
PresolveNextNoBreak ==
  /\ pc = "sweep"
  /\ index <= Len(constraints)
  /\ \E g \in Garbage :
       \E r \in {IF constraints[index].active
                 THEN PresolveOneConstraint(State(g), index)
                 ELSE Result(State(g), FALSE)} :
         /\ Install(r.st)
         /\ changed' = (changed \/ r.modified)
         /\ IF index < Len(constraints)
            THEN Goto(r.st, "sweep") /\ index' = index + 1
            ELSE IF r.st.var_representative_map_ # EmptyMap
            THEN Goto(r.st, "sweep_flush") /\ index' = index
            ELSE Goto(r.st, "sweep_end") /\ index' = index
  /\ UNCHANGED <<changed_since_start, runs, model0, substituted, snapshot>>
  /\ UNCHANGED rule

\* One iteration of the sweep of the main loop: the constraint at index is
\* presolved if it is active, and the sweep breaks if a substitution has been
\* recorded.
PresolveNext ==
  /\ pc = "sweep"
  /\ index <= Len(constraints)
  /\ \E g \in Garbage :
       \E r \in {IF constraints[index].active
                 THEN PresolveOneConstraint(State(g), index)
                 ELSE Result(State(g), FALSE)} :
         /\ Install(r.st)
         /\ changed' = (changed \/ r.modified)
         /\ IF r.st.var_representative_map_ # EmptyMap
            THEN Goto(r.st, "sweep_flush") /\ index' = index
            ELSE IF index = Len(constraints)
            THEN Goto(r.st, "sweep_end") /\ index' = index
            ELSE Goto(r.st, "sweep") /\ index' = index + 1
  /\ UNCHANGED <<changed_since_start, runs, model0, substituted, snapshot>>
  /\ UNCHANGED rule

\* The end of an iteration of the main loop: Run returns if nothing has
\* changed, and sweeps again from the first constraint otherwise.
EndSweep ==
  /\ pc = "sweep_end"
  /\ changed_since_start' = (changed_since_start \/ changed)
  /\ IF changed
     THEN pc' = "sweep" /\ index' = 1 /\ changed' = FALSE /\ snapshot' = snapshot
     ELSE /\ pc' = "returned" /\ index' = index /\ changed' = changed
          /\ snapshot' = IF runs = 1 THEN TheModel ELSE snapshot
  /\ UNCHANGED <<variables, constraints, search_annotations, output, difference_map_,
                 abs_map_, affine_map_, array2d_index_map_, int_eq_reif_map_,
                 var_representative_map_, var_to_constraints_, decision_variables_,
                 out_of_bounds, check_failed, runs, model0, substituted>>
  /\ UNCHANGED rule

\* Run is called again on the presolved model, by the same Presolver.
RunAgain ==
  /\ pc = "returned"
  /\ runs < MaxRuns
  /\ pc' = "idle"
  /\ runs' = runs + 1
  /\ UNCHANGED <<variables, constraints, search_annotations, output, difference_map_,
                 abs_map_, affine_map_, array2d_index_map_, int_eq_reif_map_,
                 var_representative_map_, var_to_constraints_, decision_variables_,
                 out_of_bounds, check_failed, index, changed, changed_since_start,
                 model0, substituted, snapshot>>
  /\ UNCHANGED rule

\* Run is called again on the presolved model, by a new Presolver.
RunWithNewPresolver ==
  /\ pc = "returned"
  /\ runs < MaxRuns
  /\ pc' = "idle"
  /\ runs' = runs + 1
  /\ difference_map_' = EmptyMap
  /\ abs_map_' = EmptyMap
  /\ affine_map_' = EmptyMap
  /\ array2d_index_map_' = EmptyMap
  /\ int_eq_reif_map_' = EmptyMap
  /\ var_representative_map_' = EmptyMap
  /\ var_to_constraints_' = EmptyMap
  /\ decision_variables_' = {}
  /\ UNCHANGED <<variables, constraints, search_annotations, output, out_of_bounds,
                 check_failed, index, changed, changed_since_start, model0,
                 substituted, snapshot>>
  /\ UNCHANGED rule

(***************************************************************************)
(* CleanUpModelForTheCpSolver: the pass over the presolved model, after    *)
(* Run.  None of its loops looks at the active flag of a constraint.       *)
(***************************************************************************)
IsArrayBoolean(values) == \A k \in 1..Len(values) : values[k] \in {0, 1}

\* False only when more than one value is non-zero and more than one is zero.
OnlyOne0OrOnlyOne1(values) ==
  ~ /\ Cardinality({k \in 1..Len(values) : values[k] # 0}) > 1
    /\ Cardinality({k \in 1..Len(values) : values[k] = 0}) > 1

\* The number of variables of the arguments of ct from the k-th on.
RECURSIVE Arity(_, _)
Arity(ct, k) ==
  IF k > Len(ct.arguments) THEN 0
  ELSE Len(ct.arguments[k].variables) + Arity(ct, k + 1)

\* The weight without the preference for reified constraints.
SortWeightByArity(ct) == Arity(ct, 1)

SortWeight(ct) ==
  (IF HasSuffixString(ct.type, "_reif") THEN 0 ELSE 100) + Arity(ct, 1)

\* The constraints with one target are sorted by weight, and the first one
\* is kept as the defining constraint.  std::sort leaves a list this short in
\* the order of the model where the weights are equal (insertion sort).
CleanUpVariableWithMultipleDefiningConstraints(s) ==
  LET ct_var_map(v) == {i \in 1..Len(s.constraints) : Ct(s, i).target_variable = v}
      first(v) ==
        CHOOSE i \in ct_var_map(v) :
          \A j \in ct_var_map(v) :
            \/ SortWeight(Ct(s, i)) < SortWeight(Ct(s, j))
            \/ SortWeight(Ct(s, i)) = SortWeight(Ct(s, j)) /\ i <= j
      multiple == {v \in DOMAIN s.variables : Cardinality(ct_var_map(v)) > 1}
  IN [s EXCEPT
        !.constraints =
          [i \in 1..Len(@) |->
             IF @[i].target_variable \in multiple /\ i # first(@[i].target_variable)
             THEN [@[i] EXCEPT !.target_variable = nullptr]
             ELSE @[i]],
        !.variables =
          [v \in DOMAIN @ |->
             IF v \in multiple THEN [@[v] EXCEPT !.defining_constraint = first(v)]
             ELSE @[v]]]

\* The first pass on constraint i, an int_lin_eq with a target: the loop
\* stops at the first position of the target with coefficient -1 or 1, and
\* negates the coefficients and the right-hand side if it is 1.  The loop
\* runs over the coefficients and reads the variables.
ReverseLinearTarget(s, i) ==
  LET var == Ct(s, i).target_variable
      values == Ct(s, i).arguments[1].values
      variables_ == Ct(s, i).arguments[2].variables
      hits == {k \in 1..MinOf(Len(values), Len(variables_)) :
                 variables_[k] = var /\ values[k] \in {-1, 1}}
      hit == CHOOSE k \in hits : \A j \in hits : k <= j
  IN IF hits = {}
     THEN IF Len(variables_) < Len(values) THEN [s EXCEPT !.out_of_bounds = TRUE] ELSE s
     ELSE IF values[hit] = -1 THEN s
     ELSE [s EXCEPT !.constraints[i].arguments[3].values[1] = Wrap(@ * (-1)),
                    !.constraints[i].arguments[1].values = Negated(@)]

\* The first pass, from constraint i on.
RECURSIVE CleanUpFirstPass(_, _, _)
CleanUpFirstPass(s, i, use_sat) ==
  IF i > Len(s.constraints) THEN s
  ELSE
    LET id == Ct(s, i).type
        Strip(st, condition) == IF condition THEN RemoveTargetVariable(st, i) ELSE st
        s1 == Strip(s, /\ id = "int_lin_eq"
                       /\ Ct(s, i).strong_propagation
                       /\ Len(Ct(s, i).arguments[1].values) > 3)
        s2 == IF id = "int_lin_eq" /\ Ct(s1, i).target_variable # nullptr
              THEN ReverseLinearTarget(s1, i)
              ELSE s1
        s3 == Strip(s2, /\ id = "array_var_int_element"
                        /\ Ct(s2, i).target_variable # nullptr
                        /\ Ct(s2, i).target_variable
                             \in Range(Ct(s2, i).arguments[2].variables))
        s4 == Strip(s3, /\ use_sat
                        /\ Ct(s3, i).target_variable # nullptr
                        /\ \/ id \in {"array_bool_and", "array_bool_or"}
                           \/ /\ id \in {"bool_eq_reif", "bool_ne_reif"}
                              /\ ~HasOneValue(s3, Ct(s3, i).arguments[2])
                           \/ id \in {"bool_le_reif", "bool_ge_reif"})
        s5 == Strip(s4, id \in {"count_reif", "set_in_reif"})
        s6 == Strip(s5, \/ /\ id = "array_int_element"
                           /\ \/ ~IsArrayBoolean(Ct(s5, i).arguments[2].values)
                              \/ ~OnlyOne0OrOnlyOne1(Ct(s5, i).arguments[2].values)
                        \/ id = "array_var_int_element")
    IN CleanUpFirstPass(s6, i + 1, use_sat)

\* The second pass, from constraint i on: a reified comparison without a
\* target gets its Boolean variable as target if no constraint defines it.
RECURSIVE CreateTargets(_, _)
CreateTargets(s, i) ==
  IF i > Len(s.constraints) THEN s
  ELSE
    LET ct == Ct(s, i)
        bool_var == Var(ct.arguments[3])
    IN IF /\ ct.target_variable = nullptr
          /\ ct.type \in {"int_lin_eq_reif", "int_lin_ne_reif", "int_lin_ge_reif",
                          "int_lin_le_reif", "int_lin_gt_reif", "int_lin_lt_reif",
                          "int_eq_reif", "int_ne_reif", "int_le_reif", "int_ge_reif",
                          "int_lt_reif", "int_gt_reif"}
       THEN IF Len(ct.arguments) < 3
            THEN CreateTargets([s EXCEPT !.out_of_bounds = TRUE], i + 1)
            ELSE IF bool_var # nullptr /\ s.variables[bool_var].defining_constraint = 0
            THEN CreateTargets([s EXCEPT !.constraints[i].target_variable = bool_var,
                                         !.variables[bool_var].defining_constraint = i],
                               i + 1)
            ELSE CreateTargets(s, i + 1)
       ELSE CreateTargets(s, i + 1)

\* The end of a chain: constraint start becomes the minimum_int or the
\* maximum_int of the chain, with the last carried variable as output and
\* target, and the other carried variables become inactive.
Regroup(s, start, chain, carry_over) ==
  LET out == carry_over[Len(carry_over)]
      arguments == SubSeq(Ct(s, start).arguments, 1, Len(Ct(s, start).arguments) - 1)
  IN [s EXCEPT
        !.constraints[start] =
          [@ EXCEPT !.arguments =
                      [arguments EXCEPT ![1].variables[1] = out,
                                        ![2].type = "INT_VAR_REF_ARRAY",
                                        ![2].variables = chain],
                    !.type = IF @ = "int_min" THEN "minimum_int" ELSE "maximum_int",
                    !.target_variable = out],
        !.variables =
          [v \in DOMAIN @ |->
             IF v = out THEN [@[v] EXCEPT !.defining_constraint = start]
             ELSE IF v \in Range(carry_over) THEN [@[v] EXCEPT !.active = FALSE]
             ELSE @[v]]]

\* The chain that starts at constraint i, if one does: start is 0 if none
\* does.  The variable carried is no longer defined; a constant in its place
\* is a null pointer, and the write through it ends the process.
CheckRegroupStart(s, i) ==
  LET ct == Ct(s, i)
      out == Var(ct.arguments[3])
  IN IF /\ ct.type \in {"int_min", "int_max"}
        /\ ct.arguments[1].variables # << >>
        /\ Var(ct.arguments[1]) = Var(ct.arguments[2])
     THEN [st |-> IF out = nullptr THEN [s EXCEPT !.check_failed = TRUE]
                  ELSE [s EXCEPT !.variables[out].defining_constraint = 0],
           start |-> i,
           chain |-> <<Var(ct.arguments[1])>>,
           carry_over |-> <<out>>]
     ELSE [st |-> s, start |-> 0, chain |-> << >>, carry_over |-> << >>]

\* The loop that regroups the int_min and the int_max, from constraint i on,
\* and the regrouping of the chain left open at its end.  The lookup in
\* var_to_constraints_ is operator[], which gives the empty set for a key
\* the map does not have.
RECURSIVE RegroupMinMax(_, _, _, _, _)
RegroupMinMax(s, i, start, chain, carry_over) ==
  IF s.check_failed THEN s
  ELSE IF i > Len(s.constraints)
  THEN IF start # 0 THEN Regroup(s, start, chain, carry_over) ELSE s
  ELSE
    LET ct == Ct(s, i)
        out == Var(ct.arguments[3])
        again == CheckRegroupStart(IF start = 0 THEN s
                                   ELSE Regroup(s, start, chain, carry_over), i)
    IN IF /\ start # 0
          /\ ct.type = Ct(s, start).type
          /\ Var(ct.arguments[2]) = carry_over[Len(carry_over)]
          /\ Cardinality(FindWithDefault(s.var_to_constraints_,
                                         Var(ct.arguments[1]), {})) <= 2
       THEN RegroupMinMax(
              IF out = nullptr THEN [s EXCEPT !.check_failed = TRUE]
              ELSE [s EXCEPT !.constraints[i].active = FALSE,
                             !.constraints[i].target_variable = nullptr,
                             !.variables[out].defining_constraint = 0,
                             !.var_to_constraints_ =
                               IF ContainsKey(@, Var(ct.arguments[1])) THEN @
                               ELSE MapPut(@, Var(ct.arguments[1]), {})],
              i + 1, start, Append(chain, Var(ct.arguments[1])),
              Append(carry_over, out))
       ELSE RegroupMinMax(again.st, i + 1, again.start, again.chain, again.carry_over)

\* For an empty vector the loop bound size() - 1 wraps around, and the first
\* read is outside of the vector.
AreOnesFollowedByMinusOne(s, coeffs) ==
  IF coeffs = << >> THEN ReadAt(s, coeffs, 0) = 1 /\ ReadAt(s, coeffs, -1) = -1
  ELSE /\ \A k \in 1..(Len(coeffs) - 1) : coeffs[k] = 1
       /\ coeffs[Len(coeffs)] = -1

IsStrictPrefix(v1, v2) ==
  /\ Len(v1) < Len(v2)
  /\ \A k \in 1..Len(v1) : v1[k] = v2[k]

\* The loop that regroups the increasing int_lin_eq into int_plus, from
\* constraint i on.
RECURSIVE RegroupLinearSums(_, _, _, _, _)
RegroupLinearSums(s, i, current_variables, target_variable, first_constraint) ==
  IF i > Len(s.constraints) THEN s
  ELSE
    LET ct == Ct(s, i)
        next == ct.arguments[2].variables
        rewritten ==
          [s EXCEPT
             !.constraints[i] =
               [@ EXCEPT
                  !.type = "int_plus",
                  !.arguments =
                    [@ EXCEPT ![1] = [type |-> "INT_VAR_REF", values |-> << >>,
                                      variables |-> Append(@.variables, target_variable)],
                              ![2] = [@ EXCEPT !.type = "INT_VAR_REF",
                                               !.variables = <<next[Len(next) - 1]>>],
                              ![3] = [type |-> "INT_VAR_REF", values |-> << >>,
                                      variables |-> Append(@.variables, next[Len(next)])]]]]
        cleaned == IF first_constraint # 0
                   THEN RemoveTargetVariable(RemoveTargetVariable(rewritten, i),
                                             first_constraint)
                   ELSE RemoveTargetVariable(rewritten, i)
    IN IF target_variable = nullptr
       THEN IF /\ ct.type = "int_lin_eq"
               /\ Len(ct.arguments[1].values) = 3
               /\ AreOnesFollowedByMinusOne(s, ct.arguments[1].values)
               /\ ct.arguments[2].values = << >>
               /\ Value(s, ct.arguments[3]) = 0
            THEN IF next = << >> THEN [s EXCEPT !.check_failed = TRUE]
                 ELSE RegroupLinearSums(s, i + 1, SubSeq(next, 1, Len(next) - 1),
                                        next[Len(next)], i)
            ELSE RegroupLinearSums(s, i + 1, current_variables, nullptr,
                                   first_constraint)
       ELSE IF /\ ct.type = "int_lin_eq"
               /\ AreOnesFollowedByMinusOne(s, ct.arguments[1].values)
               /\ Len(ct.arguments[1].values) = Len(current_variables) + 2
               /\ IsStrictPrefix(current_variables, next)
            THEN IF Len(next) < 2
                 THEN [s EXCEPT !.out_of_bounds = TRUE, !.check_failed = TRUE]
                 ELSE RegroupLinearSums(cleaned, i + 1, SubSeq(next, 1, Len(next) - 1),
                                        next[Len(next)], 0)
            ELSE RegroupLinearSums(
                   IF ct.type = "int_lin_eq" /\ ct.arguments[1].values = << >>
                   THEN [s EXCEPT !.out_of_bounds = TRUE] ELSE s,
                   i + 1, << >>, nullptr, first_constraint)

\* The passes of the cleanup, in their order.
CleanUp(s, use_sat) ==
  LET s1 == CleanUpFirstPass(s, 1, use_sat)
      s2 == CleanUpVariableWithMultipleDefiningConstraints(s1)
      s3 == CreateTargets(s2, 1)
      s4 == [s3 EXCEPT !.var_to_constraints_ = BuildVarToConstraints(s3)]
      s5 == RegroupMinMax(s4, 1, 0, << >>, << >>)
  IN IF s5.check_failed THEN s5
     ELSE RegroupLinearSums(s5, 1, << >>, nullptr, 0)

\* The caller cleans the presolved model up for the CP solver, with or
\* without the SAT layer, and presolves no more.
CleanUpModelForTheCpSolver ==
  /\ pc = "returned"
  /\ \E use_sat \in BOOLEAN :
       \E g \in Garbage :
         \E s1 \in {CleanUp(State(g), use_sat)} :
           Install(s1) /\ Goto(s1, "cleaned")
  /\ UNCHANGED <<index, changed, changed_since_start, runs, model0, substituted,
                 snapshot>>
  /\ UNCHANGED rule

(***************************************************************************)
(* The input models.  A family declares its variables and a pool of        *)
(* constraints; an input model is an ordered choice of at most MaxCts       *)
(* constraints of one family.                                               *)
(***************************************************************************)
IntVar(lo, hi) == NewVariable(IntervalDomain(lo, hi), FALSE, 0)

Lin(type, coefficients, vs, rhs) ==
  NewConstraint(type, <<IntegerList(coefficients), IntVarRefArray(vs), IntegerValue(rhs)>>,
                nullptr, FALSE)

LinReif(type, coefficients, vs, rhs, b) ==
  NewConstraint(type, <<IntegerList(coefficients), IntVarRefArray(vs), IntegerValue(rhs),
                        IntVarRef(b)>>, nullptr, FALSE)

Binary(type, a0, a1) == NewConstraint(type, <<a0, a1>>, nullptr, FALSE)

Ternary(type, a0, a1, a2) == NewConstraint(type, <<a0, a1, a2>>, nullptr, FALSE)

LinearFamily ==
  [variables |-> [v \in {"x", "y", "b"} |->
                    IF v = "b" THEN IntVar(0, 1) ELSE IntVar(0, 3)],
   pool |-> << Lin("int_lin_le", <<0>>, <<"x">>, 2),
               LinReif("int_lin_lt_reif", <<-1>>, <<"x">>, -1, "b"),
               Lin("int_lin_eq", <<1, -1>>, <<"x", "y">>, 0),
               Lin("int_lin_le", <<1, 1>>, <<"x", "y">>, 2),
               Lin("int_lin_ge", <<-1>>, <<"y">>, -2) >>,
   search_annotations |-> <<"x", "y">>,
   output |-> <<[variable |-> "x", flat_variables |-> << >>]>>]

ReifFamily ==
  [variables |-> [v \in {"x", "y", "b", "b2", "w"} |->
                    IF v \in {"x", "y"} THEN IntVar(0, 2) ELSE IntVar(0, 1)],
   pool |-> << Ternary("int_eq_reif", IntVarRef("x"), IntVarRef("y"), IntVarRef("b")),
               Ternary("int_ne_reif", IntVarRef("x"), IntVarRef("y"), IntVarRef("b2")),
               Binary("int_eq", IntVarRef("b"), IntVarRef("w")),
               Ternary("int_eq_reif", IntVarRef("b"), IntegerValue(1), IntVarRef("b2")),
               Ternary("int_le_reif", IntVarRef("x"), IntegerValue(1), IntVarRef("w")) >>,
   search_annotations |-> <<"x", "y">>,
   output |-> <<[variable |-> nullptr, flat_variables |-> <<"b", "w">>]>>]

AbsFamily ==
  [variables |-> [v \in {"x", "y", "w", "b"} |->
                    IF v \in {"x", "b"} THEN IntVar(0, 1) ELSE IntVar(-1, 1)],
   pool |-> << Binary("int_abs", IntVarRef("y"), IntVarRef("x")),
               Ternary("int_eq_reif", IntVarRef("x"), IntegerValue(0), IntVarRef("b")),
               Binary("int_eq", IntVarRef("y"), IntVarRef("w")),
               Ternary("int_le_reif", IntVarRef("x"), IntegerValue(1), IntVarRef("b")),
               Binary("int_ne", IntVarRef("x"), IntegerValue(0)) >>,
   search_annotations |-> <<"y">>,
   output |-> <<[variable |-> "x", flat_variables |-> << >>]>>]

ElementFamily ==
  [variables |-> [v \in {"j", "i", "t", "k", "u", "m"} |->
                    CASE v = "j" -> IntVar(0, 2)
                      [] v = "m" -> IntVar(2, 3)
                      [] v = "i" -> IntVar(2, 4)
                      [] v = "t" -> IntVar(5, 9)
                      [] v = "k" -> IntVar(0, 4)
                      [] v = "u" -> IntVar(2, 6)],
   pool |-> << Lin("int_lin_eq", <<1, -1>>, <<"j", "i">>, -2),
               Ternary("array_int_element", IntVarRef("i"), IntegerList(<<5, 6, 8, 9>>),
                       IntVarRef("t")),
               Ternary("array_int_element", IntVarRef("k"), IntegerList(<<3, 4, 5>>),
                       IntVarRef("u")),
               Binary("int_le", IntVarRef("t"), IntegerValue(8)),
               Ternary("array_int_element", IntVarRef("m"), IntegerList(<<5, 7, 8, 3>>),
                       IntVarRef("t")) >>,
   search_annotations |-> <<"j", "k">>,
   output |-> <<[variable |-> "t", flat_variables |-> << >>]>>]

TargetFamily ==
  [variables |-> [v \in {"t", "y", "z"} |-> IntVar(0, 2)],
   pool |-> << NewConstraint("int_lin_eq",
                             <<IntegerList(<<1, -1, 1>>), IntVarRefArray(<<"t", "y", "z">>),
                               IntegerValue(1)>>, "t", FALSE),
               Binary("int_eq", IntVarRef("t"), IntVarRef("y")),
               Binary("int_le", IntVarRef("y"), IntVarRef("z")),
               Binary("int_ne", IntVarRef("z"), IntegerValue(1)) >>,
   search_annotations |-> <<"y", "z">>,
   output |-> <<[variable |-> "t", flat_variables |-> << >>]>>]

BoolFamily ==
  [variables |-> [v \in {"b", "c", "x", "r"} |-> IntVar(0, 1)],
   pool |-> << Binary("bool2int", IntVarRef("b"), IntVarRef("x")),
               Binary("bool2int", IntVarRef("c"), IntVarRef("b")),
               Binary("array_bool_or", IntVarRefArray(<<"b", "c">>), IntVarRef("r")),
               Binary("bool_not", IntVarRef("r"), IntVarRef("x")),
               Binary("int_eq", IntVarRef("r"), IntegerValue(1)) >>,
   search_annotations |-> <<"x">>,
   output |-> <<[variable |-> nullptr, flat_variables |-> <<"x", "r">>]>>]

EqFamily ==
  [variables |-> [v \in {"x", "y", "z"} |-> IntVar(0, 3)],
   pool |-> << Lin("int_lin_eq", <<1, 1, -1>>, <<"x", "y", "z">>, 0),
               Lin("int_lin_eq", <<1, -1, 1>>, <<"x", "y", "z">>, 0),
               Lin("int_lin_eq", <<-1, 1, -1>>, <<"y", "x", "z">>, 0),
               Binary("int_eq", IntVarRef("z"), IntegerValue(0)),
               Binary("int_eq", IntVarRef("x"), IntegerValue(2)),
               Binary("int_eq", IntegerValue(1), IntVarRef("y")) >>,
   search_annotations |-> <<"x">>,
   output |-> <<[variable |-> "z", flat_variables |-> << >>]>>]

CastFamily ==
  [variables |-> [v \in {"tb", "x", "b", "r"} |->
                    NewVariable(IntervalDomain(0, 1), v = "tb", 0)],
   pool |-> << Binary("bool2int", IntVarRef("tb"), IntVarRef("x")),
               Binary("bool2int", IntVarRef("x"), IntVarRef("b")),
               Binary("bool2int", IntVarRef("b"), IntVarRef("x")),
               Binary("bool_not", IntVarRef("r"), IntVarRef("x")) >>,
   search_annotations |-> <<"x", "b">>,
   output |-> <<[variable |-> "x", flat_variables |-> <<"tb", "x">>]>>]

OrFamily ==
  [variables |-> [v \in {"b1", "b2", "b3", "r"} |-> IntVar(0, 1)],
   pool |-> << Binary("array_bool_or", IntVarRefArray(<<"b1", "b2", "b3">>), IntVarRef("r")),
               Binary("array_bool_or", IntVarRefArray(<<"b1", "b2", "b3">>),
                      IntegerValue(1)),
               Binary("int_eq", IntVarRef("b2"), IntegerValue(1)),
               Binary("int_eq", IntVarRef("r"), IntegerValue(0)),
               Binary("int_eq", IntVarRef("b1"), IntegerValue(0)) >>,
   search_annotations |-> <<"b1", "b2", "b3">>,
   output |-> <<[variable |-> "r", flat_variables |-> << >>]>>]

\* Two positive operands whose product is above kint64max and wraps around to
\* kint64max, if small ones exist at this width.
WrappingOperands ==
  LET S == {p \in (3..60) \X (1..30) :
              /\ (kint64max + p[2] * 2^IntBits) % p[1] = 0
              /\ (kint64max + p[2] * 2^IntBits) \div p[1] <= kint64max}
  IN IF S = {} THEN <<2, kint64max>>
     ELSE LET p == CHOOSE p \in S : TRUE
          IN <<p[1], (kint64max + p[2] * 2^IntBits) \div p[1]>>

ArithFamily ==
  [variables |-> [v \in {"x", "w"} |->
                    IF v = "x" THEN IntVar(0, 40)
                    ELSE IntVar(kint64max - 3, kint64max)],
   pool |-> << Ternary("int_times", IntegerValue(3), IntegerValue(4), IntVarRef("x")),
               Ternary("int_times", IntegerValue(7), IntegerValue(7), IntVarRef("x")),
               Ternary("int_times", IntegerValue(kint64max), IntegerValue(2),
                       IntVarRef("w")),
               Ternary("int_times", IntegerValue(WrappingOperands[1]),
                       IntegerValue(WrappingOperands[2]), IntVarRef("w")),
               Ternary("int_div", IntegerValue(7), IntegerValue(2), IntVarRef("x")),
               Ternary("int_div", IntegerValue(7), IntegerValue(0), IntVarRef("x")),
               Ternary("int_div", IntegerValue(100), IntegerValue(2), IntVarRef("x")),
               Ternary("int_div", IntegerValue(kint64min), IntegerValue(-1),
                       IntVarRef("w")) >>,
   search_annotations |-> <<"x">>,
   output |-> <<[variable |-> "w", flat_variables |-> << >>]>>]

\* The chains of int_min and int_max the MiniZinc expander makes of the
\* minimum and the maximum of an array.
MinMaxFamily ==
  [variables |-> [v \in {"a", "b", "c", "t1", "t2", "t3"} |-> IntVar(0, 3)],
   pool |-> << NewConstraint("int_min", <<IntVarRef("a"), IntVarRef("a"), IntVarRef("t1")>>,
                             "t1", FALSE),
               NewConstraint("int_min", <<IntVarRef("b"), IntVarRef("t1"), IntVarRef("t2")>>,
                             "t2", FALSE),
               NewConstraint("int_min", <<IntVarRef("c"), IntVarRef("t2"), IntVarRef("t3")>>,
                             "t3", FALSE),
               NewConstraint("int_min", <<IntVarRef("t1"), IntVarRef("t1"), IntVarRef("t3")>>,
                             "t3", FALSE),
               NewConstraint("int_max", <<IntVarRef("a"), IntVarRef("a"), IntVarRef("t1")>>,
                             "t1", FALSE),
               NewConstraint("int_max", <<IntVarRef("b"), IntVarRef("t1"), IntVarRef("t2")>>,
                             "t2", FALSE),
               Ternary("int_min", IntVarRef("c"), IntVarRef("c"), IntVarRef("t2")) >>,
   search_annotations |-> <<"a", "b", "c">>,
   output |-> <<[variable |-> "t3", flat_variables |-> << >>]>>]

Families ==
  <<LinearFamily, ReifFamily, AbsFamily, ElementFamily, TargetFamily, BoolFamily,
    EqFamily, CastFamily, OrFamily, ArithFamily, MinMaxFamily>>

\* The ordered choices of at most MaxCts of n constraints.
Selections(n) ==
  UNION {{sel \in [1..k -> 1..n] : \A a, b \in 1..k : a # b => sel[a] # sel[b]} :
           k \in 1..MaxCts}

\* The input model of the constraints cts of family: a target variable is
\* defined by its constraint.
InputVariables(family, cts) ==
  [v \in DOMAIN family.variables |->
     [family.variables[v] EXCEPT !.defining_constraint =
        IF \E k \in 1..Len(cts) : cts[k].target_variable = v
        THEN CHOOSE k \in 1..Len(cts) : cts[k].target_variable = v
        ELSE 0]]

Init ==
  \E f \in 1..Len(Families) :
    \E sel \in Selections(Len(Families[f].pool)) :
      LET family == Families[f]
          cts == [k \in 1..Len(sel) |-> family.pool[sel[k]]]
      IN /\ \A a, b \in 1..Len(cts) :
              a # b /\ cts[a].target_variable # nullptr
                => cts[a].target_variable # cts[b].target_variable
         /\ variables = InputVariables(family, cts)
         /\ constraints = cts
         /\ search_annotations = family.search_annotations
         /\ output = family.output
         /\ model0 = [variables |-> InputVariables(family, cts), constraints |-> cts]
         /\ snapshot = [variables |-> InputVariables(family, cts), constraints |-> cts]
         /\ difference_map_ = EmptyMap
         /\ abs_map_ = EmptyMap
         /\ affine_map_ = EmptyMap
         /\ array2d_index_map_ = EmptyMap
         /\ int_eq_reif_map_ = EmptyMap
         /\ var_representative_map_ = EmptyMap
         /\ var_to_constraints_ = EmptyMap
         /\ decision_variables_ = {}
         /\ out_of_bounds = FALSE
         /\ check_failed = FALSE
         /\ pc = "idle"
         /\ index = 1
         /\ changed = FALSE
         /\ changed_since_start = FALSE
         /\ runs = 1
         /\ substituted = EmptyMap
         /\ rule = 1

Next ==
  \/ RunStart
  \/ FlushSubstitutions
  \/ Bool2IntPass
  \/ PresolveNext
  \/ EndSweep
  \/ RunAgain
  \/ RunWithNewPresolver
  \/ CleanUpModelForTheCpSolver

Spec == Init /\ [][Next]_vars

\* Run is a sequential program: it always takes its next step.
FairSpec == Init /\ [][Next]_vars /\ WF_vars(Next)


(***************************************************************************)
(* Claims.                                                                 *)
(***************************************************************************)
\* The active constraints of a model and the domains of its variables, for
\* the traces.
Returned == pc = "returned"

\* C1: for every input model Run terminates: a sweep that reports no change
\* and records no substitution is reached, and Run returns (a failed CHECK
\* ends the process, and Run with it).
C1_RunTerminates == <>(pc \in {"returned", "aborted"})


(***************************************************************************)
(* The meaning of the constraints, for the claims about solutions: an      *)
(* assignment gives a value to every variable.                             *)
(***************************************************************************)
\* The value of a scalar argument.
ArgValue(arg, a) ==
  IF arg.type = "INT_VAR_REF" THEN a[arg.variables[1]] ELSE arg.values[1]

\* The values of an array argument.
ArgValues(arg, a) ==
  IF arg.type \in {"INT_VAR_REF", "INT_VAR_REF_ARRAY"}
  THEN [k \in 1..Len(arg.variables) |-> a[arg.variables[k]]]
  ELSE arg.values

\* The set a set argument denotes.
ArgSet(arg) ==
  IF arg.type = "INT_INTERVAL" THEN arg.values[1] .. arg.values[2]
  ELSE Range(arg.values)

Compare(op, l, r) ==
  CASE op = "eq" -> l = r
    [] op = "ne" -> l # r
    [] op = "le" -> l <= r
    [] op = "lt" -> l < r
    [] op = "ge" -> l >= r
    [] op = "gt" -> l > r

RECURSIVE SumProduct(_, _, _)
SumProduct(coefficients, values, k) ==
  IF k > Len(coefficients) THEN 0
  ELSE coefficients[k] * values[k] + SumProduct(coefficients, values, k + 1)

Comparisons == {"eq", "ne", "le", "lt", "ge", "gt"}

\* The constraint of the type without its _reif suffix holds.
HoldsPlain(type, args, a) ==
  CASE \E op \in Comparisons : type = "int_" \o op \/ type = "bool_" \o op ->
         Compare(SubSeq(type, Len(type) - 1, Len(type)),
                 ArgValue(args[1], a), ArgValue(args[2], a))
    [] \E op \in Comparisons : type = "int_lin_" \o op ->
         Compare(SubSeq(type, Len(type) - 1, Len(type)),
                 SumProduct(args[1].values, ArgValues(args[2], a), 1),
                 ArgValue(args[3], a))
    [] type = "bool_not" -> ArgValue(args[1], a) # ArgValue(args[2], a)
    [] type = "bool2int" -> ArgValue(args[1], a) = ArgValue(args[2], a)
    [] type = "int_abs" -> ArgValue(args[2], a) = AbsInt(ArgValue(args[1], a))
    [] type = "set_in" -> ArgValue(args[1], a) \in ArgSet(args[2])
    [] type = "set_not_in" -> ArgValue(args[1], a) \notin ArgSet(args[2])
    [] type = "array_bool_or" ->
         (ArgValue(args[2], a) = 1) <=> (1 \in Range(ArgValues(args[1], a)))
    [] type = "array_bool_and" ->
         (ArgValue(args[2], a) = 1) <=> (0 \notin Range(ArgValues(args[1], a)))
    [] type = "bool_xor" ->
         (ArgValue(args[3], a) = 1) <=> (ArgValue(args[1], a) # ArgValue(args[2], a))
    [] type = "bool_clause" ->
         1 \in Range(ArgValues(args[1], a)) \/ 0 \in Range(ArgValues(args[2], a))
    [] type = "int_times" ->
         ArgValue(args[1], a) * ArgValue(args[2], a) = ArgValue(args[3], a)
    [] type = "int_div" ->
         /\ ArgValue(args[2], a) # 0
         /\ CDiv(ArgValue(args[1], a), ArgValue(args[2], a)) = ArgValue(args[3], a)
    [] type = "int_mod" ->
         /\ ArgValue(args[2], a) # 0
         /\ CMod(ArgValue(args[1], a), ArgValue(args[2], a)) = ArgValue(args[3], a)
    [] type = "array_int_element" /\ Len(args) = 3 ->
         LET values == ArgValues(args[2], a)
             position == ArgValue(args[1], a)
         IN position \in 1..Len(values) /\ values[position] = ArgValue(args[3], a)
    [] type = "array_int_element" /\ Len(args) = 5 ->
         LET values == ArgValues(args[2], a)
             indices == ArgValues(args[1], a)
             position == SumProduct(args[4].values, indices, 1) + ArgValue(args[5], a)
         IN position \in 1..Len(values) /\ values[position] = ArgValue(args[3], a)
    [] type = "array_var_int_element" ->
         LET values == ArgValues(args[2], a)
             position == ArgValue(args[1], a)
         IN position \in 1..Len(values) /\ values[position] = ArgValue(args[3], a)
    [] OTHER -> FALSE

\* The constraint ct holds under the assignment a.  A constraint of a type
\* no solver knows holds under no assignment.
Holds(ct, a) ==
  IF HasSuffixString(ct.type, "_reif")
  THEN (ArgValue(ct.arguments[Len(ct.arguments)], a) = 1)
         <=> HoldsPlain(Resize(ct.type, Len(ct.type) - 5), ct.arguments, a)
  ELSE HoldsPlain(ct.type, ct.arguments, a)

\* The assignments of the variables vs, each in its set of values.
RECURSIVE Assignments(_, _)
Assignments(vs, values) ==
  IF vs = {} THEN {EmptyMap}
  ELSE LET v == CHOOSE v \in vs : TRUE
       IN {MapPut(a, v, x) : a \in Assignments(vs \ {v}, values), x \in values[v]}

\* The assignments that satisfy the domains of the active variables and the
\* active constraints of a model.
Satisfies(model, a) ==
  /\ \A v \in DOMAIN model.variables :
       model.variables[v].active => DomainContains(model.variables[v].domain, a[v])
  /\ \A i \in 1..Len(model.constraints) :
       model.constraints[i].active => Holds(model.constraints[i], a)

\* The representative of a variable along the substitutions applied.
Representative(v) == TopParent(substituted, v)

\* The solutions of the input model.
InputSolutions ==
  {a \in Assignments(DOMAIN model0.variables,
                     [v \in DOMAIN model0.variables |->
                        DomainSet(model0.variables[v].domain)]) :
     Satisfies(model0, a)}

\* The values a variable may take in a solution of the presolved model: those
\* of its domain if it is active, of the domain of its representative if it
\* has been substituted, and of its input domain otherwise.
OutputValues ==
  [v \in DOMAIN variables |->
     IF variables[v].active THEN DomainSet(variables[v].domain)
     ELSE IF Representative(v) # v THEN DomainSet(variables[Representative(v)].domain)
     ELSE DomainSet(model0.variables[v].domain) \cup DomainSet(variables[v].domain)]

\* The solutions of the presolved model, a substituted variable taking the
\* value of its representative.
OutputSolutions ==
  {a \in Assignments(DOMAIN variables, OutputValues) :
     /\ \A v \in DOMAIN variables : a[v] = a[Representative(v)]
     /\ Satisfies(TheModel, a)}

\* The variables the presolved model gives a value to.
Kept == {v \in DOMAIN variables : variables[v].active \/ Representative(v) # v}

FirstRunReturned == pc = "returned" /\ runs = 1

\* C2: every solution of the input model is a solution of the presolved
\* model, each substituted variable taking the value of its representative.
C2_NoSolutionRemoved ==
  FirstRunReturned =>
    \A a \in InputSolutions :
      Satisfies(TheModel, [v \in DOMAIN variables |-> a[Representative(v)]])

\* C3: every solution of the presolved model, extended to the substituted
\* variables along the substitutions, is a solution of the input model.
C3_NoSolutionAdded ==
  FirstRunReturned =>
    \A a \in OutputSolutions :
      \E a0 \in InputSolutions : \A v \in Kept : a0[v] = a[v]


\* C4: a second Run on the model the first Run returned changes nothing:
\* no type, argument, active flag or target of a constraint, and no domain
\* or active flag of a variable.
C4_RunIsIdempotent ==
  pc = "returned" /\ runs = 2 => TheModel = snapshot

\* C5: when Run returns, the domain of every variable holds only values of
\* its domain in the input model.
C5_DomainsMonotone ==
  FirstRunReturned =>
    \A v \in DOMAIN variables :
      DomainSet(variables[v].domain) \subseteq DomainSet(model0.variables[v].domain)

\* C6: when Run returns, every variable among the arguments of an active
\* constraint is active.
C6_ActiveSubsetConsistency ==
  Returned =>
    \A i \in 1..Len(constraints) :
      constraints[i].active =>
        \A v \in ArgumentVariables(constraints[i]) : variables[v].active

\* C7: when Run returns, the defining constraint of a variable has that
\* variable as its target, and no other active constraint has.
C7_SingleDefiningConstraint ==
  Returned =>
    \A v \in DOMAIN variables :
      variables[v].defining_constraint # 0 =>
        /\ constraints[variables[v].defining_constraint].target_variable = v
        /\ \A i \in 1..Len(constraints) :
             constraints[i].active /\ constraints[i].target_variable = v
               => i = variables[v].defining_constraint

\* C8: after every completed sweep and flush, the target variable of an
\* active constraint is defined by that constraint and is among the variables
\* of its arguments.
C8_TargetInvariant ==
  pc = "sweep_end" =>
    \A i \in 1..Len(constraints) :
      constraints[i].active /\ constraints[i].target_variable # nullptr =>
        /\ variables[constraints[i].target_variable].defining_constraint = i
        /\ constraints[i].target_variable \in ArgumentVariables(constraints[i])

\* C9: in every reachable state and for every variable v, the representative
\* of the representative of v is the representative of v: the variable
\* FindRepresentativeOfVar returns has no representative but itself.
C9_RepresentativeClosure ==
  \A v \in DOMAIN variables :
    \A r \in {FindRepresentativeOfVar(var_representative_map_, v)} :
      /\ FindRepresentativeOfVar(r.map, r.var).var = r.var
      /\ FindRepresentativeOfVar(var_representative_map_, r.var).var = r.var
      /\ FindWithDefault(r.map, r.var, r.var) = r.var

\* A chain of two substitutions is recorded: the parent of a variable has a
\* parent of its own.
C9_ChainRecorded ==
  \E v \in DOMAIN var_representative_map_ :
    /\ var_representative_map_[v] \in DOMAIN var_representative_map_
    /\ TopParent(var_representative_map_, v) # var_representative_map_[v]

\* C10: in the main loop, a step of the sweep that leaves a substitution
\* recorded ends the sweep (no other constraint is presolved before the
\* flush); the flush applies SubstituteEverywhere, clears the representative
\* map and marks the sweep as changed; a constraint is only offered to the
\* rules with an empty representative map; and the sweep that follows starts
\* at the first constraint.
C10_SubstitutionsBreakTheSweep ==
  [][/\ pc = "sweep" /\ var_representative_map_' # EmptyMap
          => pc' \in {"sweep_flush", "aborted"} /\ index' = index
     /\ pc' = "sweep" => var_representative_map_' = EmptyMap
     /\ pc = "sweep_flush"
          => /\ var_representative_map_ # EmptyMap
             /\ var_representative_map_' = EmptyMap
             /\ constraints' = SubstituteEverywhere(State(0)).constraints
             /\ variables' = SubstituteEverywhere(State(0)).variables
             /\ changed'
             /\ pc' \in {"sweep_end", "aborted"}
     /\ pc = "sweep_end" /\ changed => pc' = "sweep" /\ index' = 1]_vars

\* The sweep has stopped at a constraint that is not the last one, with a
\* substitution recorded.
C10_SweepBroken ==
  /\ pc = "sweep_flush"
  /\ index < Len(constraints)
  /\ var_representative_map_ # EmptyMap
  /\ \E i \in (index + 1)..Len(constraints) : constraints[i].active


\* The variable and the constant of an int_eq of a variable and a constant,
\* in either order; the variable is nullptr for another constraint.
IntEqVarValue(ct) ==
  IF ct.type = "int_eq" /\ Len(ct.arguments) = 2
  THEN IF ct.arguments[1].type = "INT_VAR_REF" /\ ct.arguments[2].type = "INT_VALUE"
       THEN <<ct.arguments[1].variables[1], ct.arguments[2].values[1]>>
       ELSE IF ct.arguments[1].type = "INT_VALUE" /\ ct.arguments[2].type = "INT_VAR_REF"
       THEN <<ct.arguments[2].variables[1], ct.arguments[1].values[1]>>
       ELSE <<nullptr, 0>>
  ELSE <<nullptr, 0>>

\* The sweep is about to presolve an active constraint.
AtActiveConstraint ==
  pc = "sweep" /\ index <= Len(constraints) /\ constraints[index].active

\* C12: the step of the sweep on an active int_eq(x, c) or int_eq(c, x), x a
\* variable and c a constant, leaves the domain of x equal to its previous
\* domain intersected with {c}; and when Run returns, every int_eq of a
\* variable and a constant of the input model is inactive and the domain of
\* the representative of its variable holds no value but c.
C12_IntEqConstant ==
  [][/\ AtActiveConstraint /\ IntEqVarValue(constraints[index])[1] # nullptr
          => LET x == IntEqVarValue(constraints[index])[1]
                 c == IntEqVarValue(constraints[index])[2]
             IN DomainSet(variables'[x].domain) = DomainSet(variables[x].domain) \cap {c}
     /\ pc' = "returned"
          => \A i \in 1..Len(model0.constraints) :
               IntEqVarValue(model0.constraints[i])[1] # nullptr
                 => LET x == IntEqVarValue(model0.constraints[i])[1]
                        c == IntEqVarValue(model0.constraints[i])[2]
                    IN /\ ~constraints'[i].active
                       /\ DomainSet(variables'[TopParent(substituted', x)].domain)
                            \subseteq {c}]_vars

\* Run has returned on a model with an int_eq(x, c) that has reduced the
\* domain of x to {c}.
C12_DomainReduced ==
  /\ pc = "returned"
  /\ \E i \in 1..Len(model0.constraints) :
       LET x == IntEqVarValue(model0.constraints[i])[1]
           c == IntEqVarValue(model0.constraints[i])[2]
       IN /\ x # nullptr
          /\ ~constraints[i].active
          /\ DomainSet(variables[x].domain) = {c}
          /\ DomainSet(model0.variables[x].domain) # {c}


\* Constraint ct is an active int_lin_eq over three variables with the
\* coefficients coeffs and the right-hand side 0.
IsLinEqZero(ct, coeffs) ==
  /\ ct.active
  /\ ct.type = "int_lin_eq"
  /\ Len(ct.arguments) = 3
  /\ ct.arguments[1].type = "INT_LIST"
  /\ ct.arguments[1].values = coeffs
  /\ ct.arguments[2].type = "INT_VAR_REF_ARRAY"
  /\ Len(ct.arguments[2].variables) = 3
  /\ ct.arguments[3].type = "INT_VALUE"
  /\ ct.arguments[3].values = <<0>>

\* Constraint ct is an active int_eq(z, 0) with z a variable.
IsIntEqVarZero(ct) ==
  ct.active /\ IntEqVarValue(ct)[1] # nullptr /\ IntEqVarValue(ct)[2] = 0
    /\ ct.arguments[1].type = "INT_VAR_REF"

\* C15 as stated: after the first-pass scan of a model with an active
\* int_lin_eq([1,1,-1], [x,y,z], 0), difference_map[z] = (x, y).
C15_SumRecordedAsDifference ==
  pc = "merge_flush"
    => \A i \in 1..Len(constraints) :
         IsLinEqZero(constraints[i], <<1, 1, -1>>)
           => LET xyz == constraints[i].arguments[2].variables
              IN /\ ContainsKey(difference_map_, xyz[3])
                 /\ difference_map_[xyz[3]] = <<xyz[1], xyz[2]>>

\* C15, amended: after the first-pass scan, the last active
\* int_lin_eq([1,-1,1], [x,y,z], 0) or int_lin_eq([-1,1,-1], [x,y,z], 0) with
\* z as its first or third variable has recorded difference_map[z] = (x, y)
\* and difference_map[x] = (z, y) likewise; and the step of the sweep on an
\* active int_eq(z, 0) with z in the difference map rewrites the constraint
\* to the active int_eq of the pair recorded for z.
C15_DifferenceRecordedAndUsed ==
  [][/\ pc' = "merge_flush"
          => \A i \in 1..Len(constraints') :
               \A z \in DOMAIN variables :
                 /\ \/ IsLinEqZero(constraints'[i], <<1, -1, 1>>)
                    \/ IsLinEqZero(constraints'[i], <<-1, 1, -1>>)
                 /\ z \in {constraints'[i].arguments[2].variables[1],
                           constraints'[i].arguments[2].variables[3]}
                 /\ \A j \in (i + 1)..Len(constraints') :
                      \/ IsLinEqZero(constraints'[j], <<1, -1, 1>>)
                      \/ IsLinEqZero(constraints'[j], <<-1, 1, -1>>)
                      => z \notin {constraints'[j].arguments[2].variables[1],
                                   constraints'[j].arguments[2].variables[3]}
                 => LET xyz == constraints'[i].arguments[2].variables
                        other == IF z = xyz[3] THEN xyz[1] ELSE xyz[3]
                    IN /\ ContainsKey(difference_map_', z)
                       /\ difference_map_'[z] = <<other, xyz[2]>>
     /\ AtActiveConstraint /\ IsIntEqVarZero(constraints[index])
        /\ ContainsKey(difference_map_, IntEqVarValue(constraints[index])[1])
          => LET diff == difference_map_[IntEqVarValue(constraints[index])[1]]
             IN /\ constraints'[index].active
                /\ constraints'[index].type = "int_eq"
                /\ constraints'[index].arguments
                     = <<IntVarRef(diff[1]), IntVarRef(diff[2])>>]_vars

\* An int_eq(z, 0) of the input model now reads int_eq(x, y), (x, y) being
\* the pair the scan recorded for z from an int_lin_eq([1,-1,1], [x,y,z], 0).
C15_IntEqRewritten ==
  \E i \in 1..Len(constraints) :
    /\ i <= Len(model0.constraints)
    /\ IsIntEqVarZero(model0.constraints[i])
    /\ \E j \in 1..Len(model0.constraints) :
         /\ IsLinEqZero(model0.constraints[j], <<1, -1, 1>>)
         /\ model0.constraints[j].arguments[2].variables[3]
              = IntEqVarValue(model0.constraints[i])[1]
         /\ constraints[i].active
         /\ constraints[i].type = "int_eq"
         /\ constraints[i].arguments
              = <<IntVarRef(model0.constraints[j].arguments[2].variables[1]),
                  IntVarRef(model0.constraints[j].arguments[2].variables[2])>>


\* Constraint i is a bool2int(b, x) of two unfixed variables that rule 2 of
\* the bool2int pass has just made inactive: the substitution it recorded is
\* waiting for the flush.
Bool2IntSubstituted(i) ==
  /\ pc = "bool2int_flush"
  /\ ~constraints[i].active
  /\ constraints[i].type = "bool2int"
  /\ IsVariable(constraints[i].arguments[1])
  /\ IsVariable(constraints[i].arguments[2])
  /\ ~DomainHasOneValue(variables[Var(constraints[i].arguments[1])].domain)
  /\ ~DomainHasOneValue(variables[Var(constraints[i].arguments[2])].domain)
  /\ \/ ContainsKey(var_representative_map_, Var(constraints[i].arguments[1]))
     \/ ContainsKey(var_representative_map_, Var(constraints[i].arguments[2]))

\* The step has replaced by r every occurrence of x in the arguments and the
\* target of the constraints active after it, in the search annotations and
\* in the output specifications.
OccurrencesReplaced(x, r) ==
  /\ \A j \in 1..Len(constraints) :
       constraints'[j].active
         => /\ \A a \in 1..Len(constraints[j].arguments) :
                 \A k \in 1..Len(constraints[j].arguments[a].variables) :
                   constraints[j].arguments[a].variables[k] = x
                     => constraints'[j].arguments[a].variables[k] = r
            /\ constraints[j].target_variable = x
                 => constraints'[j].target_variable = r
  /\ \A k \in 1..Len(search_annotations) :
       search_annotations[k] = x => search_annotations'[k] = r
  /\ \A k \in 1..Len(output) :
       /\ output[k].variable = x => output'[k].variable = r
       /\ \A j \in 1..Len(output[k].flat_variables) :
            output[k].flat_variables[j] = x => output'[k].flat_variables[j] = r

\* Variable x occurs in an active constraint, a search annotation or an
\* output specification.
Occurs(x) ==
  \/ \E j \in 1..Len(constraints) :
       /\ constraints[j].active
       /\ x \in ArgumentVariables(constraints[j]) \cup {constraints[j].target_variable}
  \/ x \in Range(search_annotations)
  \/ \E k \in 1..Len(output) :
       x \in {output[k].variable} \cup Range(output[k].flat_variables)

AtArrayBoolOr ==
  /\ AtActiveConstraint
  /\ constraints[index].type = "array_bool_or"
  /\ constraints[index].arguments[1].type = "INT_VAR_REF_ARRAY"
  /\ Len(constraints[index].arguments[1].variables) >= 2

\* Argument arg is the constant c, or a variable whose domain is {c}.
FixedTo(arg, c) ==
  \/ arg.type = "INT_VALUE" /\ arg.values = <<c>>
  \/ arg.type = "INT_VAR_REF"
       /\ DomainSet(variables[arg.variables[1]].domain) = {c}

\* Argument arg is a variable whose domain has more than one value.
UnfixedVariable(arg) ==
  /\ arg.type = "INT_VAR_REF"
  /\ Cardinality(DomainSet(variables[arg.variables[1]].domain)) > 1

\* C14: the step of the sweep on an active array_bool_or(array, target) of at
\* least two elements: with an element fixed to 1 and the target the
\* constant 1 or an unfixed variable, the constraint becomes inactive and the
\* domain of an unfixed target is intersected with {1}; with the target
\* fixed to 0 and 0 in the domain of every element, the domain of every
\* element becomes {0} and the constraint becomes inactive.
C14_ArrayBoolOr ==
  [][AtArrayBoolOr
       => LET array == constraints[index].arguments[1].variables
              target == constraints[index].arguments[2]
          IN /\ /\ \E k \in 1..Len(array) : DomainSet(variables[array[k]].domain) = {1}
                /\ \/ target.type = "INT_VALUE" /\ target.values = <<1>>
                   \/ UnfixedVariable(target)
                => /\ ~constraints'[index].active
                   /\ UnfixedVariable(target)
                        => DomainSet(variables'[target.variables[1]].domain)
                             = DomainSet(variables[target.variables[1]].domain) \cap {1}
             /\ /\ FixedTo(target, 0)
                /\ \A k \in 1..Len(array) : 0 \in DomainSet(variables[array[k]].domain)
                => /\ ~constraints'[index].active
                   /\ \A k \in 1..Len(array) :
                        DomainSet(variables'[array[k]].domain) = {0}]_vars

\* An array_bool_or of three elements with an unfixed target in the input
\* model is inactive, one of its elements is fixed to 1 and its target, free
\* in the input model, is fixed to 1.
C14_TargetForced ==
  \E i \in 1..Len(constraints) :
    /\ constraints[i].type = "array_bool_or"
    /\ ~constraints[i].active
    /\ Len(constraints[i].arguments[1].variables) >= 2
    /\ constraints[i].arguments[2].type = "INT_VAR_REF"
    /\ \E k \in 1..Len(constraints[i].arguments[1].variables) :
         DomainSet(variables[constraints[i].arguments[1].variables[k]].domain) = {1}
    /\ DomainSet(variables[constraints[i].arguments[2].variables[1]].domain) = {1}
    /\ DomainSet(model0.variables[constraints[i].arguments[2].variables[1]].domain)
         = {0, 1}


\* The sweep is about to presolve an active array_int_element(i, A, t) not
\* yet propagated: i is a variable, in neither index map, with a
\* non-singleton interval domain [lo, hi] within 1..|A|, A is not a run of
\* consecutive integers, and t is a variable whose bounds hold A[lo] and
\* A[hi].
AtArrayIntElement ==
  /\ AtActiveConstraint
  /\ constraints[index].type = "array_int_element"
  /\ Len(constraints[index].arguments) = 3
  /\ IsVariable(constraints[index].arguments[1])
  /\ constraints[index].arguments[2].type = "INT_LIST"
  /\ IsVariable(constraints[index].arguments[3])
  /\ ~constraints[index].presolve_propagation_done
  /\ LET i == Var(constraints[index].arguments[1])
         A == constraints[index].arguments[2].values
         t == Var(constraints[index].arguments[3])
         d == variables[i].domain
     IN /\ ~ContainsKey(affine_map_, i)
        /\ ~ContainsKey(array2d_index_map_, i)
        /\ d.is_interval /\ Len(d.values) = 2
        /\ 1 <= d.values[1] /\ d.values[1] < d.values[2] /\ d.values[2] <= Len(A)
        /\ ~IsIncreasingContiguous(A)
        /\ variables[t].domain.values # << >>
        /\ \A k \in {d.values[1], d.values[2]} :
             /\ DomainMin(variables[t].domain) <= A[k]
             /\ A[k] <= DomainMax(variables[t].domain)

\* C16 as stated: the step on such an array_int_element(i, A, t) keeps the
\* constraint active and leaves the domain of t equal to its previous domain
\* intersected with {A[k] : lo <= k <= hi}.
C16_ValuesOfTheIndexDomain ==
  [][AtArrayIntElement
       => LET i == Var(constraints[index].arguments[1])
              A == constraints[index].arguments[2].values
              t == Var(constraints[index].arguments[3])
              lo == variables[i].domain.values[1]
              hi == variables[i].domain.values[2]
          IN /\ constraints'[index].active
             /\ constraints'[index].type = "array_int_element"
             /\ DomainSet(variables'[t].domain)
                  = DomainSet(variables[t].domain) \cap {A[k] : k \in lo..hi}]_vars

\* C16, amended: the step on such an array_int_element(i, A, t) keeps the
\* constraint an active array_int_element(i, A', t), A' being the first hi
\* values of A, leaves the domain of i alone, and leaves the domain of t
\* equal to its previous domain intersected with {A[k] : 1 <= k <= hi}.
C16_ValuesUpToTheIndexMax ==
  [][AtArrayIntElement
       => LET i == Var(constraints[index].arguments[1])
              A == constraints[index].arguments[2].values
              t == Var(constraints[index].arguments[3])
              hi == variables[i].domain.values[2]
          IN /\ constraints'[index].active
             /\ constraints'[index].type = "array_int_element"
             /\ constraints'[index].arguments
                  = [constraints[index].arguments EXCEPT ![2].values = SubSeq(A, 1, hi)]
             /\ variables'[i].domain = variables[i].domain
             /\ DomainSet(variables'[t].domain)
                  = DomainSet(variables[t].domain) \cap {A[k] : k \in 1..hi}]_vars

\* An array_int_element(i, A, t) of the input model, i in [lo, hi] with
\* 1 < lo and hi < |A|, is active over the first hi values of A, and the
\* domain of t, which held it in the input model, has kept A[1].
C16_FirstValueKept ==
  \E c \in 1..Len(constraints) :
    /\ c <= Len(model0.constraints)
    /\ model0.constraints[c].type = "array_int_element"
    /\ constraints[c].type = "array_int_element"
    /\ constraints[c].active
    /\ constraints[c].presolve_propagation_done
    /\ LET i == Var(model0.constraints[c].arguments[1])
           A == model0.constraints[c].arguments[2].values
           t == Var(model0.constraints[c].arguments[3])
           d == model0.variables[i].domain
       IN /\ 1 < d.values[1] /\ d.values[2] < Len(A)
          /\ constraints[c].arguments[2].values = SubSeq(A, 1, d.values[2])
          /\ ~variables[t].domain.is_interval
          /\ A[1] \in DomainSet(variables[t].domain)
          /\ DomainSet(variables[t].domain)
               = DomainSet(model0.variables[t].domain) \cap {A[k] : k \in 1..d.values[2]}


\* The sweep is about to presolve an active int_times(c1, c2, x) or
\* int_div(c1, c2, x) of two constants and a variable.
AtConstantArithmetic ==
  /\ AtActiveConstraint
  /\ constraints[index].type \in {"int_times", "int_div"}
  /\ Len(constraints[index].arguments) = 3
  /\ constraints[index].arguments[1].type = "INT_VALUE"
  /\ constraints[index].arguments[2].type = "INT_VALUE"
  /\ IsVariable(constraints[index].arguments[3])

\* C19: the step of the sweep on an active int_times(c1, c2, x) or
\* int_div(c1, c2, x) of two constants changes the domain of x only by
\* reducing it to the exact product (quotient, c2 # 0) when it is an int64 of
\* the domain of x, and the constraint is then inactive; when the exact
\* result overflows or is not in the domain of x, no domain changes, and the
\* constraint stays active with its type.
C19_ExactResultOrNothing ==
  [][AtConstantArithmetic
       => LET c1 == constraints[index].arguments[1].values[1]
              c2 == constraints[index].arguments[2].values[1]
              x == Var(constraints[index].arguments[3])
              times == constraints[index].type = "int_times"
              exact == IF times THEN c1 * c2
                       ELSE IF c2 # 0 THEN CDiv(c1, c2) ELSE 0
              fits == /\ times \/ c2 # 0
                      /\ ~Overflows(exact)
                      /\ exact \in DomainSet(variables[x].domain)
          IN /\ DomainSet(variables'[x].domain) # DomainSet(variables[x].domain)
                  => /\ fits
                     /\ DomainSet(variables'[x].domain) = {exact}
                     /\ ~constraints'[index].active
             /\ ~fits
                  => /\ \A v \in DOMAIN variables :
                          variables'[v].domain = variables[v].domain
                     /\ constraints'[index].active
                     /\ constraints'[index].type = constraints[index].type]_vars


\* Constraint ct without its presolve_propagation_done flag.
WithoutDoneFlag(ct) == [ct EXCEPT !.presolve_propagation_done = FALSE]

\* Between the states s and t, constraint i has changed (type, arguments,
\* active flag or target), or a variable domain, or the substitution map, or
\* an auxiliary map.
ListedChange(s, t, i) ==
  \/ Ct(s, i).type # Ct(t, i).type
  \/ Ct(s, i).arguments # Ct(t, i).arguments
  \/ Ct(s, i).active # Ct(t, i).active
  \/ Ct(s, i).target_variable # Ct(t, i).target_variable
  \/ \E v \in DOMAIN s.variables : Dom(s, v) # Dom(t, v)
  \/ s.var_representative_map_ # t.var_representative_map_
  \/ s.difference_map_ # t.difference_map_
  \/ s.abs_map_ # t.abs_map_
  \/ s.affine_map_ # t.affine_map_
  \/ s.array2d_index_map_ # t.array2d_index_map_
  \/ s.int_eq_reif_map_ # t.int_eq_reif_map_

\* The model and the maps of the presolver are the same in s and t, the
\* presolve_propagation_done flags left aside.
WholeModelUnchanged(s, t) ==
  /\ s.variables = t.variables
  /\ Len(s.constraints) = Len(t.constraints)
  /\ \A c \in 1..Len(s.constraints) : WithoutDoneFlag(Ct(s, c)) = WithoutDoneFlag(Ct(t, c))
  /\ s.search_annotations = t.search_annotations
  /\ s.output = t.output
  /\ s.var_representative_map_ = t.var_representative_map_
  /\ s.difference_map_ = t.difference_map_
  /\ s.abs_map_ = t.abs_map_
  /\ s.affine_map_ = t.affine_map_
  /\ s.array2d_index_map_ = t.array2d_index_map_
  /\ s.int_eq_reif_map_ = t.int_eq_reif_map_

\* Every rule offered to constraint i from the k-th on, in the order of
\* PresolveOneConstraint, answers true if and only if it makes a listed
\* change, and leaves the whole model unchanged when it answers false.
RECURSIVE AnswersFaithfulFrom(_, _, _)
AnswersFaithfulFrom(s, i, k) ==
  IF k > Len(Rules) THEN TRUE
  ELSE IF Offered(s, i, Rules[k])
       THEN \A r \in {ApplyRule(s, i, Rules[k].method)} :
              /\ r.modified <=> ListedChange(s, r.st, i)
              /\ ~r.modified => WholeModelUnchanged(s, r.st)
              /\ AnswersFaithfulFrom(r.st, i, k + 1)
       ELSE AnswersFaithfulFrom(s, i, k + 1)

\* C20: whenever the sweep is about to presolve an active constraint, each
\* rule then applied to it returns true if and only if it changes the
\* constraint (type, arguments, active flag, target), a variable domain, the
\* substitution map or an auxiliary map, and a rule that returns false leaves
\* the whole model unchanged.
C20_AnswerTellsModification ==
  AtActiveConstraint
    => \A g \in Garbage : AnswersFaithfulFrom(State(g), index, 1)

\* The step is the cleanup pass, and the pass has returned.
CleanUpStep == pc = "returned" /\ pc' = "cleaned"

\* Variable x occurs in the arguments of no constraint but the i-th.
OtherwiseUnused(x, i) ==
  \A j \in 1..Len(constraints) : j # i => x \notin ArgumentVariables(constraints[j])

\* Constraints p .. p + n - 1 are a chain int_min(x1, x1, t1),
\* int_min(x2, t1, t2), ..., int_min(xn, t(n-1), tn), or one of int_max, each
\* xi from the second on otherwise unused, and the constraint after them, if
\* there is one, does not go on from tn.
IsMinMaxChain(p, n) ==
  /\ p + n - 1 <= Len(constraints)
  /\ constraints[p].type \in {"int_min", "int_max"}
  /\ \A k \in 0..(n - 1) :
       /\ constraints[p + k].type = constraints[p].type
       /\ Len(constraints[p + k].arguments) = 3
       /\ \A a \in 1..3 : IsVariable(constraints[p + k].arguments[a])
  /\ Var(constraints[p].arguments[1]) = Var(constraints[p].arguments[2])
  /\ \A k \in 1..(n - 1) :
       /\ Var(constraints[p + k].arguments[2]) = Var(constraints[p + k - 1].arguments[3])
       /\ OtherwiseUnused(Var(constraints[p + k].arguments[1]), p + k)
  /\ p + n <= Len(constraints)
       => ~ /\ constraints[p + n].type = constraints[p].type
            /\ Var(constraints[p + n].arguments[2])
                 = Var(constraints[p + n - 1].arguments[3])

\* The cleanup step has regrouped the chain p .. p + n - 1: its first
\* constraint is the active minimum_int or maximum_int of [x1 .. xn] with
\* output and target tn, its other constraints are inactive, and so are
\* t1 .. t(n-1).
ChainRegrouped(p, n) ==
  LET tn == Var(constraints[p + n - 1].arguments[3])
  IN /\ constraints'[p].active
     /\ constraints'[p].type =
          IF constraints[p].type = "int_min" THEN "minimum_int" ELSE "maximum_int"
     /\ constraints'[p].arguments =
          <<IntVarRef(tn),
            IntVarRefArray([k \in 1..n |-> Var(constraints[p + k - 1].arguments[1])])>>
     /\ constraints'[p].target_variable = tn
     /\ \A k \in 1..(n - 1) :
          /\ ~constraints'[p + k].active
          /\ ~variables'[Var(constraints[p + k - 1].arguments[3])].active

\* C17: the cleanup pass regroups every chain of int_min, and every chain of
\* int_max, into one active minimum_int (maximum_int) over [x1 .. xn] with
\* output and target tn, and makes the other constraints of the chain and
\* t1 .. t(n-1) inactive.
C17_ChainRegrouped ==
  [][CleanUpStep
       => \A p \in 1..Len(constraints) :
            \A n \in 1..Len(constraints) :
              IsMinMaxChain(p, n) => ChainRegrouped(p, n)]_vars

\* C18: when the cleanup pass has returned, no variable is the target of
\* more than one constraint, and the constraint a variable is the target of
\* is the defining constraint of the variable.
C18_TargetsAreDefiners ==
  pc = "cleaned"
    => \A i \in 1..Len(constraints) :
         constraints[i].target_variable # nullptr
           => /\ \A j \in 1..Len(constraints) :
                   j # i => constraints[j].target_variable # constraints[i].target_variable
              /\ variables[constraints[i].target_variable].defining_constraint = i

\* C11: no step of Run, of the flush of the substitutions or of the cleanup
\* pass changes the type, the arguments or the target of a constraint that
\* is inactive, and none makes an inactive constraint the defining
\* constraint of a variable.
C11_InactiveConstraintsIgnored ==
  [][/\ \A i \in 1..Len(constraints) :
          ~constraints[i].active
            => /\ constraints'[i].type = constraints[i].type
               /\ constraints'[i].arguments = constraints[i].arguments
               /\ constraints'[i].target_variable = constraints[i].target_variable
     /\ \A v \in DOMAIN variables :
          LET ct == variables'[v].defining_constraint
          IN ct # variables[v].defining_constraint /\ ct # 0
               => constraints[ct].active]_vars

(***************************************************************************)
(* PresolveOneConstraint, rule by rule: the rules are offered in their      *)
(* order to the one constraint of a model, each step applying the next      *)
(* rule the constraint is offered.                                          *)
(***************************************************************************)
\* The position of the first rule from the k-th on that constraint 1 is
\* offered, 0 if there is none.
RECURSIVE NextRule(_, _)
NextRule(s, k) ==
  IF k > Len(Rules) THEN 0
  ELSE IF Offered(s, 1, Rules[k]) THEN k
  ELSE NextRule(s, k + 1)

\* The next rule offered is applied.
OfferRule ==
  /\ pc = "offer"
  /\ NextRule(State(0), rule) # 0
  /\ \E k \in {NextRule(State(0), rule)} :
       \E g \in Garbage :
         \E r \in {ApplyRule(State(g), 1, Rules[k].method)} :
           /\ Install(r.st)
           /\ Goto(r.st, "offer")
           /\ rule' = k + 1
           /\ changed' = (changed \/ r.modified)
  /\ UNCHANGED <<index, changed_since_start, runs, model0, substituted, snapshot>>

\* No rule is left: PresolveOneConstraint returns.
EndOfRules ==
  /\ pc = "offer"
  /\ NextRule(State(0), rule) = 0
  /\ pc' = "offered"
  /\ UNCHANGED <<variables, constraints, search_annotations, output, difference_map_,
                 abs_map_, affine_map_, array2d_index_map_, int_eq_reif_map_,
                 var_representative_map_, var_to_constraints_, decision_variables_,
                 out_of_bounds, check_failed, index, changed, changed_since_start,
                 runs, model0, substituted, snapshot, rule>>

\* The variables of the one-constraint models: x and y with the bounds xd,
\* b with the bounds bd; the target is defined by the constraint.
RuleVariables(xd, bd, target) ==
  [v \in {"x", "y", "b"} |->
     NewVariable(IF v = "b" THEN IntervalDomain(bd[1], bd[2])
                 ELSE IntervalDomain(xd[1], xd[2]),
                 FALSE, IF v = target THEN 1 ELSE 0)]

RuleInput(xd, bd, type, arguments, target) ==
  [variables |-> RuleVariables(xd, bd, target),
   constraint |-> NewConstraint(type, arguments, target, FALSE)]

\* The reified constraints, with the Boolean a constant or the variable b,
\* fixed or not, target or not.
ReifiedTypes ==
  {P \o op \o "_reif" : P \in {"int_", "bool_", "int_lin_"}, op \in Comparisons}
    \cup {"set_in_reif", "set_not_in_reif"}

ReifiedArguments(type) ==
  IF HasPrefixString(type, "int_lin_")
  THEN <<IntegerList(<<1, -1>>), IntVarRefArray(<<"x", "y">>), IntegerValue(0)>>
  ELSE IF HasPrefixString(type, "set_")
  THEN <<IntVarRef("x"), IntegerList(<<1, 3>>)>>
  ELSE <<IntVarRef("x"), IntVarRef("y")>>

ReifiedInputs ==
  {RuleInput(IF HasPrefixString(type, "bool_") THEN <<0, 1>> ELSE <<0, 3>>, <<0, 1>>,
             type, Append(ReifiedArguments(type), IntegerValue(c)), nullptr) :
     type \in ReifiedTypes, c \in {0, 1}}
    \cup
  {RuleInput(IF HasPrefixString(type, "bool_") THEN <<0, 1>> ELSE <<0, 3>>, bd,
             type, Append(ReifiedArguments(type), IntVarRef("b")), target) :
     type \in ReifiedTypes, bd \in {<<0, 0>>, <<1, 1>>, <<0, 1>>},
     target \in {nullptr, "b"}}

\* The linear constraints over x and y, plain and reified by the unfixed b,
\* with coefficients of one sign, of both signs or zero, the target x or none.
LinearInputs ==
  {RuleInput(<<0, 3>>, <<0, 1>>, "int_lin_" \o op,
             <<IntegerList(coefficients), IntVarRefArray(<<"x", "y">>),
               IntegerValue(rhs)>>, target) :
     op \in Comparisons,
     coefficients \in {<<-1, -2>>, <<-1, 0>>, <<0, 0>>, <<-1, 1>>, <<1, 1>>},
     rhs \in {-2, 0, 3}, target \in {nullptr, "x"}}
    \cup
  {RuleInput(<<0, 3>>, <<0, 1>>, "int_lin_" \o op \o "_reif",
             <<IntegerList(coefficients), IntVarRefArray(<<"x", "y">>),
               IntegerValue(rhs), IntVarRef("b")>>, target) :
     op \in Comparisons,
     coefficients \in {<<-1, -2>>, <<-1, 0>>, <<0, 0>>, <<-1, 1>>, <<1, 1>>},
     rhs \in {-2, 0, 3}, target \in {nullptr, "x"}}

\* The linear constraints of constants: the scalar product is 3.
ConstantLinearInputs ==
  {RuleInput(<<0, 3>>, <<0, 1>>, "int_lin_" \o op,
             <<IntegerList(<<1, 2>>), IntegerList(<<1, 1>>), IntegerValue(rhs)>>,
             nullptr) :
     op \in Comparisons, rhs \in {2, 3, 4}}
    \cup
  {RuleInput(<<0, 3>>, <<0, 1>>, "int_lin_" \o op \o "_reif",
             <<IntegerList(<<1, 2>>), IntegerList(<<1, 1>>), IntegerValue(rhs),
               IntVarRef("b")>>, target) :
     op \in Comparisons, rhs \in {2, 3, 4}, target \in {nullptr, "b"}}

\* The inequalities: two constants, x against a constant (in its domain, at
\* its edges, outside of it, and at the ends of int64), a constant against x,
\* x against y; x over an interval or over a list of values.
InequalityConstants == {kint64min, -1, 0, 1, 3, 4, kint64max}

InequalityArguments ==
  {<<IntegerValue(c), IntegerValue(d)>> : c \in {0, 1}, d \in {0, 1}}
    \cup {<<IntVarRef("x"), IntegerValue(c)>> : c \in InequalityConstants}
    \cup {<<IntegerValue(c), IntVarRef("x")>> : c \in InequalityConstants}
    \cup {<<IntVarRef("x"), IntVarRef("y")>>}

InequalityInputs ==
  LET Intervals ==
        {RuleInput(IF P = "bool_" THEN <<0, 1>> ELSE <<0, 3>>, <<0, 1>>,
                   P \o op, arguments, nullptr) :
           P \in {"int_", "bool_"}, op \in {"le", "lt", "ge", "gt"},
           arguments \in InequalityArguments}
  IN Intervals
       \cup {[input EXCEPT !.variables["x"].domain = ListDomain(<<0, 2, 3>>)] :
               input \in {in \in Intervals :
                            HasPrefixString(in.constraint.type, "int_")}}

\* The reified linear equalities a*x + c*y = rhs <-> b, over intervals,
\* lists, fixed and unbounded variables, with coefficients whose products or
\* sums leave int64.
LinReifCoefficients ==
  {<<1, 1>>, <<1, -1>>, <<2, 3>>, <<0, 1>>, <<kint64max, 1>>,
   <<2^(IntBits - 3), 2^(IntBits - 3)>>, <<-(2^(IntBits - 3)), -(2^(IntBits - 3))>>}

LinReifInputs ==
  {[RuleInput(xd, <<0, 1>>, "int_lin_eq_reif",
              <<IntegerList(coefficients), IntVarRefArray(<<"x", "y">>),
                IntegerValue(rhs), IntVarRef("b")>>, target)
      EXCEPT !.variables["y"].domain = yd] :
     xd \in {<<0, 3>>, <<2, 2>>, <<kint64min, 3>>},
     yd \in {IntervalDomain(0, 3), IntervalDomain(2, 2), AllInt64Domain,
             IntervalDomain(0, kint64max), ListDomain(<<0, 2, 3>>)},
     coefficients \in LinReifCoefficients,
     rhs \in {-1, 0, 2, 4, 6, 7}, target \in {nullptr, "b"}}

\* The element constraints array_int_element(x, A, y) without mappings: A
\* contiguous from 1, from another start, or not contiguous; the index x over
\* the positions of A, over more than them, or over a list.
ElementInputs ==
  {[RuleInput(<<0, 5>>, <<0, 1>>, "array_int_element",
              <<IntVarRef("x"), IntegerList(A), IntVarRef("y")>>, target)
      EXCEPT !.variables["x"].domain = xd] :
     xd \in {IntervalDomain(1, 3), IntervalDomain(1, 5), IntervalDomain(0, 3),
             IntervalDomain(1, 2), ListDomain(<<1, 3>>)},
     A \in {<<1, 2, 3>>, <<2, 3, 4>>, <<0, 1, 2>>, <<2, 3, 5>>, <<3>>},
     target \in {nullptr, "y"}}

\* The linear constraints with x twice: the coefficients of x add up to
\* zero or not.
DuplicateLinearInputs ==
  {RuleInput(<<0, 3>>, <<0, 1>>, "int_lin_" \o op,
             <<IntegerList(coefficients), IntVarRefArray(vs), IntegerValue(rhs)>>,
             nullptr) :
     op \in Comparisons,
     coefficients \in {<<1, -1>>, <<1, 1>>, <<2, -2>>},
     vs \in {<<"x", "x">>}, rhs \in {0, 1}}
    \cup
  {RuleInput(<<0, 3>>, <<0, 1>>, "int_lin_eq",
             <<IntegerList(<<1, 2, -1>>), IntVarRefArray(<<"x", "y", "x">>),
               IntegerValue(rhs)>>, nullptr) : rhs \in {0, 2}}

RuleInputs ==
  ReifiedInputs \cup LinearInputs \cup ConstantLinearInputs \cup InequalityInputs
    \cup LinReifInputs \cup ElementInputs \cup DuplicateLinearInputs

\* PresolveOneConstraint is called on the one constraint of an input model.
RuleInit ==
  \E input \in RuleInputs :
    /\ variables = input.variables
    /\ constraints = <<input.constraint>>
    /\ search_annotations = << >>
    /\ output = << >>
    /\ model0 = [variables |-> input.variables, constraints |-> <<input.constraint>>]
    /\ snapshot = [variables |-> input.variables, constraints |-> <<input.constraint>>]
    /\ difference_map_ = EmptyMap
    /\ abs_map_ = EmptyMap
    /\ affine_map_ = EmptyMap
    /\ array2d_index_map_ = EmptyMap
    /\ int_eq_reif_map_ = EmptyMap
    /\ var_representative_map_ = EmptyMap
    /\ var_to_constraints_ =
         [v \in ArgumentVariables(input.constraint) |-> {1}]
    /\ decision_variables_ = {}
    /\ out_of_bounds = FALSE
    /\ check_failed = FALSE
    /\ pc = "offer"
    /\ index = 1
    /\ changed = FALSE
    /\ changed_since_start = FALSE
    /\ runs = 1
    /\ substituted = EmptyMap
    /\ rule = 1

RuleNext == OfferRule \/ EndOfRules

RuleSpec == RuleInit /\ [][RuleNext]_vars

(***************************************************************************)
(* Claims about the rules, one rule at a time.                              *)
(***************************************************************************)
\* The step about to be taken applies the rule of the given name.
RuleOffered(method) ==
  /\ pc = "offer"
  /\ NextRule(State(0), rule) # 0
  /\ Rules[NextRule(State(0), rule)].method = method

\* The negation of a comparison.
Opposite(op) ==
  CASE op = "eq" -> "ne"
    [] op = "ne" -> "eq"
    [] op = "le" -> "gt"
    [] op = "gt" -> "le"
    [] op = "lt" -> "ge"
    [] op = "ge" -> "lt"

\* C24: Unreify on a constraint P_op_reif, P one of int_, bool_, int_lin_ and
\* op a comparison: if the last argument is fixed, it is dropped with the
\* suffix, the target is removed, and the type is P_op if the Boolean is 1
\* and P_op' if it is 0, op' the negation of op; if the last argument is not
\* fixed, nothing changes.
C24_Unreify ==
  [][RuleOffered("Unreify")
       => \A P \in {"int_", "bool_", "int_lin_"} :
            \A op \in Comparisons :
              constraints[1].type = P \o op \o "_reif"
                => LET ct == constraints[1]
                       last == ct.arguments[Len(ct.arguments)]
                   IN IF HasOneValue(State(0), last)
                      THEN /\ constraints'[1].type =
                                P \o (IF Value(State(0), last) = 1 THEN op
                                      ELSE Opposite(op))
                           /\ constraints'[1].arguments =
                                SubSeq(ct.arguments, 1, Len(ct.arguments) - 1)
                           /\ constraints'[1].target_variable = nullptr
                           /\ \A v \in DOMAIN variables :
                                variables'[v].defining_constraint = 0
                           /\ changed'
                      ELSE /\ constraints' = constraints
                           /\ variables' = variables
                           /\ ~changed']_vars

\* Unreify has made int_lin_gt(.., x, y, 0) of an int_lin_le_reif whose
\* Boolean, the target b, is fixed to 0.
C24_Inverted ==
  /\ pc = "offer"
  /\ rule = 2
  /\ model0.constraints[1].type = "int_lin_le_reif"
  /\ model0.constraints[1].target_variable = "b"
  /\ model0.variables["b"].domain = IntervalDomain(0, 0)
  /\ constraints[1].type = "int_lin_gt"
  /\ Len(constraints[1].arguments) = 3
  /\ constraints[1].target_variable = nullptr

\* C25: Unreify on set_in_reif(x, S, b) and set_not_in_reif(x, S, b) with b
\* fixed: with b false they become set_not_in(x, S) and set_in(x, S), with b
\* true set_in(x, S) and set_not_in(x, S).
C25_SetMembershipInverted ==
  [][RuleOffered("Unreify")
       => \A type \in {"set_in", "set_not_in"} :
            LET ct == constraints[1]
                last == ct.arguments[Len(ct.arguments)]
            IN constraints[1].type = type \o "_reif" /\ HasOneValue(State(0), last)
                 => /\ constraints'[1].arguments = SubSeq(ct.arguments, 1, 2)
                    /\ constraints'[1].type =
                         IF Value(State(0), last) = 1 THEN type
                         ELSE IF type = "set_in" THEN "set_not_in"
                         ELSE "set_in"]_vars

\* The comparison with its sides exchanged.
Swapped(op) ==
  CASE op = "le" -> "ge"
    [] op = "ge" -> "le"
    [] op = "lt" -> "gt"
    [] op = "gt" -> "lt"
    [] OTHER -> op

\* The assignments of the variables of the one-constraint models.
RuleAssignments == [{"x", "y", "b"} -> 0..3]

\* Constraint 1 has the same solutions after the step as before it.
SameSolutions ==
  \A a \in RuleAssignments : Holds(constraints'[1], a) <=> Holds(constraints[1], a)

\* C26: PresolveLinear on an int_lin_* constraint with variables, plain or
\* reified, whose coefficients are all negative or zero: if the target is
\* not among the operands, every coefficient and the right-hand side are
\* negated and the comparison is swapped, and the solutions are the same; if
\* the target is among the operands, nothing changes.
C26_SignReversal ==
  [][RuleOffered("PresolveLinear")
       => \A op \in Comparisons :
            \A suffix \in {"", "_reif"} :
              LET ct == constraints[1]
                  coefficients == ct.arguments[1].values
              IN /\ ct.type = "int_lin_" \o op \o suffix
                 /\ ct.arguments[2].variables # << >>
                 /\ coefficients # << >>
                 /\ \A k \in 1..Len(coefficients) : coefficients[k] <= 0
                 => IF ct.target_variable \in Range(ct.arguments[2].variables)
                    THEN constraints' = constraints
                    ELSE /\ constraints'[1].arguments[1].values =
                              [k \in 1..Len(coefficients) |-> 0 - coefficients[k]]
                         /\ constraints'[1].arguments[3].values[1] =
                              0 - ct.arguments[3].values[1]
                         /\ constraints'[1].type = "int_lin_" \o Swapped(op) \o suffix
                         /\ SameSolutions]_vars

\* C27: PresolveLinear on a linear constraint of constants: a plain
\* constraint is made inactive if the scalar product and the right-hand side
\* are in the relation and set as false if not; a reified one, of each of
\* the six comparisons, becomes bool_eq(b, t), t the truth value of the
\* relation.
C27_ConstantLinear ==
  [][RuleOffered("PresolveLinear")
       => \A op \in Comparisons :
            \A suffix \in {"", "_reif"} :
              LET ct == constraints[1]
                  holds == Compare(op, SumProduct(ct.arguments[1].values,
                                                  ct.arguments[2].values, 1),
                                   ct.arguments[3].values[1])
              IN /\ ct.type = "int_lin_" \o op \o suffix
                 /\ ct.arguments[1].values # << >>
                 /\ ct.arguments[2].variables = << >>
                 /\ Len(ct.arguments[2].values) = Len(ct.arguments[1].values)
                 => IF suffix = ""
                    THEN IF holds THEN ~constraints'[1].active
                         ELSE /\ constraints'[1].active
                              /\ constraints'[1].type = "false_constraint"
                    ELSE /\ constraints'[1].active
                         /\ constraints'[1].type = "bool_eq"
                         /\ constraints'[1].arguments =
                              <<ct.arguments[4], IntegerValue(BoolToInt(holds))>>]_vars

\* C28: PresolveInequalities on int_ and bool_ le, lt, ge, gt.  With two
\* constants the constraint is deactivated when the relation holds and set as
\* false otherwise; with a variable on one side and a constant on the other,
\* the domain of the variable becomes its previous domain restricted to the
\* values for which the relation holds, and the constraint is deactivated.
C28_Inequalities ==
  [][RuleOffered("PresolveInequalities") /\ ~check_failed'
       => \A P \in {"int_", "bool_"} : \A op \in {"le", "lt", "ge", "gt"} :
            constraints[1].type = P \o op
              => LET a0 == constraints[1].arguments[1]
                     a1 == constraints[1].arguments[2]
                 IN /\ (a0.type = "INT_VALUE" /\ a1.type = "INT_VALUE")
                         => IF Compare(op, a0.values[1], a1.values[1])
                            THEN ~constraints'[1].active
                            ELSE constraints'[1].type = "false_constraint"
                    /\ (a0.type = "INT_VAR_REF" /\ a1.type = "INT_VALUE")
                         => /\ DomainSet(variables'[a0.variables[1]].domain) =
                                 {v \in DomainSet(variables[a0.variables[1]].domain) :
                                    Compare(op, v, a1.values[1])}
                            /\ ~constraints'[1].active
                    /\ (a0.type = "INT_VALUE" /\ a1.type = "INT_VAR_REF")
                         => /\ DomainSet(variables'[a1.variables[1]].domain) =
                                 {v \in DomainSet(variables[a1.variables[1]].domain) :
                                    Compare(op, a0.values[1], v)}
                            /\ ~constraints'[1].active]_vars

\* The position of a method in the rules of PresolveOneConstraint.
RuleOf(method) == CHOOSE k \in 1..Len(Rules) : Rules[k].method = method

\* The exact bounds of the first k terms of a linear form over the domains of
\* the state: <<minimum, maximum>>.
RECURSIVE ExactLinBounds(_, _, _)
ExactLinBounds(coefficients, vs, k) ==
  IF k = 0 THEN <<0, 0>>
  ELSE LET before == ExactLinBounds(coefficients, vs, k - 1)
           d == variables[vs[k]].domain
           lo == coefficients[k] * DomainMin(d)
           hi == coefficients[k] * DomainMax(d)
       IN <<before[1] + MinOf(lo, hi), before[2] + MaxOf(lo, hi)>>

\* C29: CheckIntLinReifBounds on int_lin_eq_reif(coefs, vars, rhs, b), lb..ub
\* the exact range of the linear form: if a variable with a non-zero
\* coefficient has an infinite bound, or a product or a sum of the
\* computation reaches kint64min or kint64max, nothing changes; otherwise b is
\* forced to 0 and the constraint deactivated if rhs < lb or rhs > ub, b is
\* forced to 1 and the constraint deactivated if lb = ub = rhs, and nothing
\* changes in the other cases.
C29_LinReifBounds ==
  [][RuleOffered("CheckIntLinReifBounds")
       => LET ct == constraints[1]
              coefficients == ct.arguments[1].values
              vs == ct.arguments[2].variables
              rhs == ct.arguments[3].values[1]
              b == ct.arguments[4].variables[1]
              n == Len(coefficients)
              Infinite ==
                \E k \in 1..n :
                  /\ coefficients[k] # 0
                  /\ \/ DomainMin(variables[vs[k]].domain) = kint64min
                     \/ DomainMax(variables[vs[k]].domain) = kint64max
              Reaches(v) == v <= kint64min \/ v >= kint64max
              Saturated ==
                \E k \in 1..n :
                  /\ coefficients[k] # 0
                  /\ \/ Reaches(coefficients[k] * DomainMin(variables[vs[k]].domain))
                     \/ Reaches(coefficients[k] * DomainMax(variables[vs[k]].domain))
                     \/ Reaches(ExactLinBounds(coefficients, vs, k)[1])
                     \/ Reaches(ExactLinBounds(coefficients, vs, k)[2])
              lb == ExactLinBounds(coefficients, vs, n)[1]
              ub == ExactLinBounds(coefficients, vs, n)[2]
              Nothing == constraints' = constraints /\ variables' = variables
              Forced(value) ==
                /\ DomainSet(variables'[b].domain) = {value}
                /\ ~constraints'[1].active
          IN IF Infinite THEN Nothing
             ELSE IF Saturated THEN Nothing
             ELSE IF rhs < lb \/ rhs > ub THEN Forced(0)
             ELSE IF lb = ub /\ ub = rhs THEN Forced(1)
             ELSE Nothing]_vars

\* CheckIntLinReifBounds has forced b to 1: 0*x + y with y fixed to 2 is 2.
C29_ForcedToTrue ==
  /\ pc = "offer"
  /\ rule = RuleOf("CheckIntLinReifBounds") + 1
  /\ model0.constraints[1].arguments[1].values = <<0, 1>>
  /\ model0.variables["x"].domain = IntervalDomain(kint64min, 3)
  /\ model0.variables["y"].domain = IntervalDomain(2, 2)
  /\ constraints[1].type = "int_lin_eq_reif"
  /\ ~constraints[1].active
  /\ variables["b"].domain = IntervalDomain(1, 1)

\* The assignments of x, y and b within the domains of the state.
DomainAssignments ==
  {a \in [{"x", "y", "b"} -> -1..6] :
     \A v \in {"x", "y", "b"} : a[v] \in DomainSet(variables[v].domain)}

\* C30: PresolveSimplifyElement on array_int_element(index, A, target), the
\* index not fixed and not longer than A, the values of A the contiguous
\* integers from s on: the constraint becomes int_eq(index, target) when
\* s = 1 and int_lin_eq([-1, 1], [target, index], 1 - s) otherwise, and it
\* admits the same (index, target) pairs of the current domains as before.
C30_ContiguousElement ==
  [][RuleOffered("PresolveSimplifyElement")
       => LET ct == constraints[1]
              index_var == ct.arguments[1].variables[1]
              A == ct.arguments[2].values
              target == ct.arguments[3].variables[1]
              d == variables[index_var].domain
          IN /\ ~DomainHasOneValue(d)
             /\ ~(d.is_interval /\ DomainMax(d) < Len(A))
             /\ \A k \in 1..Len(A) : A[k] = A[1] + k - 1
             => /\ IF A[1] = 1
                   THEN /\ constraints'[1].type = "int_eq"
                        /\ constraints'[1].arguments =
                             <<IntVarRef(index_var), IntVarRef(target)>>
                   ELSE /\ constraints'[1].type = "int_lin_eq"
                        /\ constraints'[1].arguments =
                             <<IntegerList(<<-1, 1>>), IntVarRefArray(<<target, index_var>>),
                               IntegerValue(1 - A[1])>>
                /\ \A a \in DomainAssignments :
                     Holds(constraints'[1], a) <=> Holds(constraints[1], a)]_vars

\* SubstituteEverywhere is about to run on recorded substitutions.
Substituting ==
  /\ pc \in {"merge_flush", "bool2int_flush", "sweep_flush"}
  /\ var_representative_map_ # EmptyMap

\* The variable has a representative other than itself.
IsSubstituted(v) ==
  v \in DOMAIN var_representative_map_ /\ TopParent(var_representative_map_, v) # v

\* C23: after SubstituteEverywhere no active constraint has among its
\* variable arguments, or as its target, a variable with a representative
\* other than itself, and neither have the search annotations and the
\* outputs; each such reference has been replaced by the representative.
C23_NoSubstitutedReference ==
  [][Substituting
       => /\ \A i \in 1..Len(constraints') :
               constraints'[i].active
                 => /\ \A v \in ArgumentVariables(constraints'[i]) : ~IsSubstituted(v)
                    /\ ~IsSubstituted(constraints'[i].target_variable)
                    /\ constraints'[i].arguments =
                         SubstituteArguments(var_representative_map_,
                                             constraints[i].arguments)
          /\ \A k \in 1..Len(search_annotations') :
               ~IsSubstituted(search_annotations'[k])
          /\ \A k \in 1..Len(output') :
               /\ ~IsSubstituted(output'[k].variable)
               /\ \A j \in 1..Len(output'[k].flat_variables) :
                    ~IsSubstituted(output'[k].flat_variables[j])]_vars

(***************************************************************************)
(* AddVariableSubstition applied to pairs of variables of a model of three *)
(* variables, each temporary or not, defined by a constraint or not, over  *)
(* an interval or a list.                                                  *)
(***************************************************************************)
SubstNames == <<"u", "v", "w">>

SubstDomains == {IntervalDomain(0, 3), IntervalDomain(2, 5), ListDomain(<<1, 3>>)}

\* Constraint k is int_abs(other, SubstNames[k]); it defines SubstNames[k]
\* when defined[k].
SubstConstraints(defined) ==
  [k \in 1..3 |->
     NewConstraint("int_abs",
                   <<IntVarRef(SubstNames[(k % 3) + 1]), IntVarRef(SubstNames[k])>>,
                   IF defined[k] THEN SubstNames[k] ELSE nullptr, FALSE)]

SubstInit ==
  \E domains \in [1..3 -> SubstDomains], temporary \in [1..3 -> BOOLEAN],
     defined \in [1..3 -> BOOLEAN] :
    LET vs == [n \in Range(SubstNames) |->
                 LET k == CHOOSE k \in 1..3 : SubstNames[k] = n
                 IN NewVariable(domains[k], temporary[k],
                                IF defined[k] THEN k ELSE 0)]
        cts == SubstConstraints(defined)
    IN /\ variables = vs
       /\ constraints = cts
       /\ search_annotations = << >>
       /\ output = << >>
       /\ model0 = [variables |-> vs, constraints |-> cts]
       /\ snapshot = [variables |-> vs, constraints |-> cts]
       /\ difference_map_ = EmptyMap
       /\ abs_map_ = EmptyMap
       /\ affine_map_ = EmptyMap
       /\ array2d_index_map_ = EmptyMap
       /\ int_eq_reif_map_ = EmptyMap
       /\ var_representative_map_ = EmptyMap
       /\ var_to_constraints_ =
            [n \in Range(SubstNames) |->
               {k \in 1..3 : n \in ArgumentVariables(cts[k])}]
       /\ decision_variables_ = {}
       /\ out_of_bounds = FALSE
       /\ check_failed = FALSE
       /\ pc = "substitute"
       /\ index = 1
       /\ changed = FALSE
       /\ changed_since_start = FALSE
       /\ runs = 1
       /\ substituted = EmptyMap
       /\ rule = 1

Substitute ==
  /\ pc = "substitute"
  /\ \E from \in DOMAIN variables, to \in DOMAIN variables :
       \E s1 \in {AddVariableSubstition(State(0), from, to)} :
         Install(s1) /\ Goto(s1, "substitute")
  /\ UNCHANGED <<index, changed, changed_since_start, runs, model0, substituted,
                 snapshot, rule>>

SubstNext == Substitute

SubstSpec == SubstInit /\ [][SubstNext]_vars

\* The defining constraint of the variable, if any, has it as its target.
IsTargetOfItsDefiner(x) ==
  variables[x].defining_constraint # 0
    => constraints[variables[x].defining_constraint].target_variable = x

C21_RulesIdempotent ==
  pc = "offer" /\ NextRule(State(0), rule) # 0
    => LET k == NextRule(State(0), rule)
       IN \A g \in Garbage :
            LET once == ApplyRule(State(g), 1, Rules[k].method)
                twice == ApplyRule(once.st, 1, Rules[k].method)
            IN once.modified /\ ~once.st.check_failed /\ Offered(once.st, 1, Rules[k])
                 => ~twice.modified /\ twice.st = once.st

\* Constraint ct is an int_lin_eq from which StoreDifference records the
\* entry of v.
Originates(ct, v, entry) ==
  /\ ct.active
  /\ ct.type = "int_lin_eq"
  /\ ct.arguments[1].values \in {<<1, -1, 1>>, <<-1, 1, -1>>}
  /\ ct.arguments[3].values = <<0>>
  /\ Len(ct.arguments[2].variables) = 3
  /\ LET vs == ct.arguments[2].variables
     IN \/ v = vs[1] /\ entry = <<vs[3], vs[2]>>
        \/ v = vs[3] /\ entry = <<vs[1], vs[2]>>

\* C31: every entry var -> (a, b) that the first-pass scan records in the
\* difference map is implied by its originating int_lin_eq with the meaning
\* var = a - b: under every assignment that satisfies the constraint, the
\* value of var is the value of a minus the value of b.
C31_DifferenceImplied ==
  [][pc = "idle"
       => \A v \in DOMAIN difference_map_' :
            /\ \E i \in 1..Len(constraints) :
                 Originates(constraints[i], v, difference_map_'[v])
            /\ \A i \in 1..Len(constraints) :
                 Originates(constraints[i], v, difference_map_'[v])
                   => \A a \in [Range(constraints[i].arguments[2].variables) -> -1..1] :
                        Holds(constraints[i], a)
                          => a[v] = a[difference_map_'[v][1]] - a[difference_map_'[v][2]]]_vars

(***************************************************************************)
(* The start of Run, up to the first SubstituteEverywhere, on models of    *)
(* int_eq_reif and int_ne_reif of a variable and a constant.               *)
(***************************************************************************)
MergeFamily ==
  [variables |-> [v \in {"x", "y", "b1", "b2", "b3", "b4"} |->
                    IF v \in {"x", "y"} THEN IntVar(0, 2)
                    ELSE NewVariable(IntervalDomain(0, 1), v = "b3", 0)],
   pool |-> << NewConstraint("int_eq_reif",
                 <<IntVarRef("x"), IntegerValue(0), IntVarRef("b1")>>, "b1", FALSE),
               Ternary("int_eq_reif", IntegerValue(0), IntVarRef("x"), IntVarRef("b2")),
               Ternary("int_eq_reif", IntVarRef("x"), IntegerValue(0), IntVarRef("b3")),
               Ternary("int_eq_reif", IntVarRef("x"), IntegerValue(1), IntVarRef("b3")),
               Ternary("int_eq_reif", IntVarRef("y"), IntegerValue(0), IntVarRef("b2")),
               Ternary("int_ne_reif", IntVarRef("x"), IntegerValue(0), IntVarRef("b4")),
               NewConstraint("int_ne_reif",
                 <<IntegerValue(0), IntVarRef("x"), IntVarRef("b3")>>, "b3", FALSE),
               Ternary("int_ne_reif", IntVarRef("x"), IntegerValue(0), IntVarRef("b2")) >>,
   search_annotations |-> <<"x", "b1">>,
   output |-> <<[variable |-> "b2", flat_variables |-> <<"b3">>]>>]

\* The state before Run (or, with another value of start, after it) on the
\* model of the constraints cts of family.
FamilyInit(family, cts, start) ==
  /\ variables = InputVariables(family, cts)
  /\ constraints = cts
  /\ search_annotations = family.search_annotations
  /\ output = family.output
  /\ model0 = [variables |-> InputVariables(family, cts), constraints |-> cts]
  /\ snapshot = [variables |-> InputVariables(family, cts), constraints |-> cts]
  /\ difference_map_ = EmptyMap
  /\ abs_map_ = EmptyMap
  /\ affine_map_ = EmptyMap
  /\ array2d_index_map_ = EmptyMap
  /\ int_eq_reif_map_ = EmptyMap
  /\ var_representative_map_ = EmptyMap
  /\ var_to_constraints_ = EmptyMap
  /\ decision_variables_ = {}
  /\ out_of_bounds = FALSE
  /\ check_failed = FALSE
  /\ pc = start
  /\ index = 1
  /\ changed = FALSE
  /\ changed_since_start = FALSE
  /\ runs = 1
  /\ substituted = EmptyMap
  /\ rule = 1

MergeInit ==
  \E sel \in Selections(Len(MergeFamily.pool)) :
    LET cts == [k \in 1..Len(sel) |-> MergeFamily.pool[sel[k]]]
    IN /\ \A a, b \in 1..Len(cts) :
            a # b /\ cts[a].target_variable # nullptr
              => cts[a].target_variable # cts[b].target_variable
       /\ FamilyInit(MergeFamily, cts, "idle")

\* Run up to the first pass on bool2int.
MergeNext ==
  \/ RunStart
  \/ pc = "merge_flush" /\ FlushSubstitutions

MergeSpec == MergeInit /\ [][MergeNext]_vars

\* The variable and the constant of an int_eq_reif or int_ne_reif of a
\* variable and a constant, in either order.
ReifKey(ct) ==
  IF ct.arguments[1].type = "INT_VAR_REF" /\ ct.arguments[2].type = "INT_VALUE"
  THEN <<ct.arguments[1].variables[1], ct.arguments[2].values[1]>>
  ELSE IF ct.arguments[1].type = "INT_VALUE" /\ ct.arguments[2].type = "INT_VAR_REF"
  THEN <<ct.arguments[2].variables[1], ct.arguments[1].values[1]>>
  ELSE << >>

\* The constraints of the input model of the given type on the variable and
\* the constant of key.
ReifGroup(type, key) ==
  {i \in 1..Len(model0.constraints) :
     /\ model0.constraints[i].type = type
     /\ ReifKey(model0.constraints[i]) = key}

BoolOf(i) == model0.constraints[i].arguments[3].variables[1]

\* C32: after MergeIntEqNe and the flush that follows it, of the int_eq_reif
\* on the same variable and the same constant, in either order, only the
\* first is active, and their Booleans share one representative; the same
\* for int_ne_reif; an int_eq_reif is not merged with an int_ne_reif.
C32_MergeIntEqNe ==
  pc = "bool2int"
    => /\ \A type \in {"int_eq_reif", "int_ne_reif"} :
            \A i \in 1..Len(model0.constraints) :
              LET G == ReifGroup(type, ReifKey(model0.constraints[i]))
              IN i \in G
                   => /\ constraints[i].active <=> \A j \in G : i <= j
                      /\ \A j \in G : Representative(BoolOf(i)) = Representative(BoolOf(j))
       /\ \A i, j \in 1..Len(model0.constraints) :
            /\ Len(model0.constraints) = 2
            /\ model0.constraints[i].type = "int_eq_reif"
            /\ model0.constraints[j].type = "int_ne_reif"
            /\ BoolOf(i) # BoolOf(j)
            => Representative(BoolOf(i)) # Representative(BoolOf(j))

\* Three int_eq_reif on x and 0, the second with the constant first, have
\* been merged: only the first is active and it has the Boolean of the last.
C32_ThreeMerged ==
  /\ pc = "bool2int"
  /\ Len(model0.constraints) = 3
  /\ \A i \in 1..3 : model0.constraints[i].type = "int_eq_reif"
                       /\ ReifKey(model0.constraints[i]) = <<"x", 0>>
  /\ model0.constraints[2].arguments[1].type = "INT_VALUE"
  /\ Cardinality({BoolOf(i) : i \in 1..3}) = 3
  /\ constraints[1].active /\ ~constraints[2].active /\ ~constraints[3].active
  /\ Cardinality({Representative(BoolOf(i)) : i \in 1..3}) = 1
  /\ constraints[1].arguments[3].variables[1] = Representative(BoolOf(1))


(***************************************************************************)
(* CleanUpModelForTheCpSolver on models with several constraints for one   *)
(* target, with int_lin_eq constraints that define a variable with         *)
(* coefficient 1 or -1, and with chains of sums.                           *)
(***************************************************************************)
CleanFamily ==
  [variables |-> [v \in {"x", "y", "z", "t", "u", "b"} |->
                    IF v \in {"x", "y", "z"} THEN IntVar(0, 2)
                    ELSE IF v = "b" THEN IntVar(0, 1)
                    ELSE IntVar(0, 6)],
   pool |-> << NewConstraint("int_lin_eq",
                 <<IntegerList(<<1, 1, -1>>), IntVarRefArray(<<"x", "y", "t">>),
                   IntegerValue(0)>>, "t", FALSE),
               NewConstraint("int_lin_eq",
                 <<IntegerList(<<-1, -1, 1>>), IntVarRefArray(<<"x", "y", "t">>),
                   IntegerValue(0)>>, "t", FALSE),
               NewConstraint("int_lin_eq",
                 <<IntegerList(<<1, 1, 1, -1>>), IntVarRefArray(<<"x", "y", "z", "u">>),
                   IntegerValue(0)>>, "u", FALSE),
               NewConstraint("int_lin_eq",
                 <<IntegerList(<<1, 1, 1, -1>>), IntVarRefArray(<<"x", "y", "z", "u">>),
                   IntegerValue(1)>>, "u", FALSE),
               NewConstraint("int_lin_eq",
                 <<IntegerList(<<1, kint64min>>), IntVarRefArray(<<"t", "x">>),
                   IntegerValue(kint64min + 1)>>, "t", FALSE),
               NewConstraint("int_lin_eq",
                 <<IntegerList(<<2, 1>>), IntVarRefArray(<<"x", "t">>),
                   IntegerValue(4)>>, "t", FALSE),
               NewConstraint("int_lin_eq_reif",
                 <<IntegerList(<<1, 1>>), IntVarRefArray(<<"x", "y">>),
                   IntegerValue(1), IntVarRef("b")>>, "b", FALSE),
               NewConstraint("int_eq_reif",
                 <<IntVarRef("x"), IntegerValue(1), IntVarRef("b")>>, "b", FALSE),
               NewConstraint("int_abs", <<IntVarRef("x"), IntVarRef("b")>>, "b", FALSE),
               NewConstraint("int_times",
                 <<IntVarRef("x"), IntVarRef("y"), IntVarRef("b")>>, "b", FALSE),
               NewConstraint("int_plus",
                 <<IntVarRef("x"), IntVarRef("y"), IntVarRef("t")>>, "t", FALSE) >>,
   search_annotations |-> <<"x">>,
   output |-> <<[variable |-> "t", flat_variables |-> << >>]>>]

\* A presolved model handed to the cleanup: several constraints may have
\* the same target.
CleanInit ==
  \E sel \in Selections(Len(CleanFamily.pool)) :
    FamilyInit(CleanFamily, [k \in 1..Len(sel) |-> CleanFamily.pool[sel[k]]], "returned")

CleanNext == CleanUpModelForTheCpSolver

CleanSpec == CleanInit /\ [][CleanNext]_vars

\* The constraints of st with target v.
Definers(st, v) == {i \in 1..Len(st.constraints) : st.constraints[i].target_variable = v}

IsReified(ct) == HasSuffixString(ct.type, "_reif")

\* The state handed to CleanUpVariableWithMultipleDefiningConstraints.
AfterFirstPass(use_sat) == CleanUpFirstPass(State(0), 1, use_sat)

\* k is kept for v by CleanUpVariableWithMultipleDefiningConstraints on state
\* st, and the other constraints of D have lost the target, also at the end
\* of the cleanup.
KeptAmong(st, v, D, k, use_sat) ==
  LET after == CleanUpVariableWithMultipleDefiningConstraints(st)
  IN /\ after.constraints[k].target_variable = v
     /\ after.variables[v].defining_constraint = k
     /\ \A j \in D \ {k} : after.constraints[j].target_variable = nullptr
     /\ (constraints' = CleanUp(State(0), use_sat).constraints
           => \A j \in D \ {k} : constraints'[j].target_variable = nullptr)

TargetPosition(ct) ==
  LET values == ct.arguments[1].values
      variables_ == ct.arguments[2].variables
      hits == {k \in 1..MinOf(Len(values), Len(variables_)) :
                 variables_[k] = ct.target_variable /\ values[k] \in {-1, 1}}
  IN IF hits = {} THEN 0 ELSE CHOOSE k \in hits : \A j \in hits : k <= j

\* The assignment a of the variables of int_lin_eq ct satisfies it, in the
\* integers.
RECURSIVE ExactScalProd(_, _, _, _)
ExactScalProd(values, variables_, a, k) ==
  IF k > Len(values) THEN 0
  ELSE values[k] * a[variables_[k]] + ExactScalProd(values, variables_, a, k + 1)

SatisfiesLinEq(ct, a) ==
  ExactScalProd(ct.arguments[1].values, ct.arguments[2].variables, a, 1)
    = ct.arguments[3].values[1]

\* C34: on the cleanup, an int_lin_eq with a target of coefficient 1 or -1
\* that is still an int_lin_eq with a target afterwards has coefficient -1
\* on the target, either unchanged or with all coefficients and the
\* right-hand side negated, and has the same solutions as before; one whose
\* target had coefficient -1 keeps its arguments.
C34_CanonicalSign ==
  [][pc = "returned" /\ pc' = "cleaned"
       => \A i \in 1..Len(constraints) :
            LET ct == constraints[i]
                after == constraints'[i]
                p == TargetPosition(ct)
            IN /\ ct.type = "int_lin_eq"
               /\ ct.target_variable # nullptr
               /\ p # 0
               /\ after.type = "int_lin_eq"
               => /\ after.target_variable # nullptr
                    => /\ after.arguments[1].values[p] = -1
                       /\ after.arguments[2] = ct.arguments[2]
                       /\ \A a \in [Range(ct.arguments[2].variables) -> 0..2] :
                            SatisfiesLinEq(ct, a) <=> SatisfiesLinEq(after, a)
                  /\ ct.arguments[1].values[p] = -1 => after.arguments = ct.arguments]_vars


\* The assignments of the variables of CleanFamily within their domains.
ChainAssignments ==
  {a \in [DOMAIN CleanFamily.variables -> 0..6] :
     \A v \in DOMAIN a : DomainContains(CleanFamily.variables[v].domain, a[v])}

\* The assignment a satisfies the int_plus ct.
SatisfiesIntPlus(ct, a) ==
  a[ct.arguments[1].variables[1]] + a[ct.arguments[2].variables[1]]
    = a[ct.arguments[3].variables[1]]

\* C35: on the cleanup, a constraint that becomes an int_plus was an
\* int_lin_eq with coefficients 1, ..., 1, -1 and right-hand side 0 that
\* follows the previous constraint of the chain, and under that previous
\* constraint the int_plus has the solutions of the int_lin_eq.
C35_ChainRegrouping ==
  [][pc = "returned" /\ pc' = "cleaned"
       => \A i \in 1..Len(constraints) :
            LET ct == constraints[i]
                after == constraints'[i]
            IN ct.type # "int_plus" /\ after.type = "int_plus"
                 => /\ ct.type = "int_lin_eq"
                    /\ ct.arguments[1].values # << >>
                    /\ AreOnesFollowedByMinusOne(State(0), ct.arguments[1].values)
                    /\ ct.arguments[3].values = <<0>>
                    /\ i > 1
                    /\ constraints[i - 1].type = "int_lin_eq"
                    /\ \A a \in ChainAssignments :
                         SatisfiesLinEq(constraints[i - 1], a)
                           => (SatisfiesLinEq(ct, a) <=> SatisfiesIntPlus(after, a))]_vars


\* C36: during Run, every active constraint is in var_to_constraints_ under
\* each variable of its arguments.
C36_ReverseIndexComplete ==
  pc \in {"merge_flush", "bool2int", "bool2int_flush", "sweep", "offer", "substitute",
          "sweep_flush", "sweep_end"}
    => \A i \in 1..Len(constraints) :
         constraints[i].active
           => \A v \in ArgumentVariables(constraints[i]) :
                /\ v \in DOMAIN var_to_constraints_
                /\ i \in var_to_constraints_[v]


\* The variable reached from var by n lookups in map.
RECURSIVE Follow(_, _, _)
Follow(map, var, n) ==
  IF n = 0 THEN var ELSE Follow(map, FindWithDefault(map, var, var), n - 1)

\* The variable reached from var by as many lookups as there are variables.
Root(map, var) == Follow(map, var, Cardinality(DOMAIN variables))

\* C37: following the representative map from any variable reaches a
\* variable without an entry in at most as many steps as there are variables,
\* and FindRepresentativeOfVar on any variable returns that variable and
\* leaves a map in which every variable reaches the same one as before.
C37_RepresentativeMapAcyclic ==
  \A v \in DOMAIN variables :
    /\ Root(var_representative_map_, v) \notin DOMAIN var_representative_map_
    /\ \A r \in {FindRepresentativeOfVar(var_representative_map_, v)} :
         /\ r.var = Root(var_representative_map_, v)
         /\ \A w \in DOMAIN variables :
              Root(r.map, w) = Root(var_representative_map_, w)

\* The map holds a chain of two entries, which FindRepresentativeOfVar
\* compresses.
C37_ChainOfTwo ==
  \E a \in DOMAIN var_representative_map_ :
    /\ var_representative_map_[a] \in DOMAIN var_representative_map_
    /\ FindRepresentativeOfVar(var_representative_map_, a).map # var_representative_map_


(***************************************************************************)
(* Run on array_int_element constraints whose index i is defined by an     *)
(* int_lin_eq over j: i = 2j - 1 or i = j + 1, j from 1.                   *)
(***************************************************************************)
AffineFamily(j_max) ==
  [variables |-> [v \in {"j", "i", "t"} |->
                    CASE v = "j" -> IntVar(1, j_max)
                      [] v = "i" -> IntVar(1, 5)
                      [] v = "t" -> IntVar(0, 9)],
   pool |-> << NewConstraint("int_lin_eq",
                 <<IntegerList(<<2, -1>>), IntVarRefArray(<<"j", "i">>),
                   IntegerValue(1)>>, "i", FALSE),
               NewConstraint("int_lin_eq",
                 <<IntegerList(<<1, -1>>), IntVarRefArray(<<"j", "i">>),
                   IntegerValue(-1)>>, "i", FALSE),
               Ternary("array_int_element", IntVarRef("i"), IntegerList(<<5, 6, 8, 9>>),
                       IntVarRef("t")),
               Ternary("array_int_element", IntVarRef("i"), IntegerList(<<5, 6, 8, 9, 7>>),
                       IntVarRef("t")) >>,
   search_annotations |-> <<"j">>,
   output |-> <<[variable |-> "t", flat_variables |-> << >>]>>]

AffineInit ==
  \E j_max \in 1..3 :
    \E sel \in Selections(Len(AffineFamily(j_max).pool)) :
      LET cts == [k \in 1..Len(sel) |-> AffineFamily(j_max).pool[sel[k]]]
      IN /\ \A a, b \in 1..Len(cts) :
              a # b /\ cts[a].target_variable # nullptr
                => cts[a].target_variable # cts[b].target_variable
         /\ FamilyInit(AffineFamily(j_max), cts, "idle")

\* One Run.
AffineNext ==
  \/ RunStart
  \/ FlushSubstitutions
  \/ Bool2IntPass
  \/ PresolveNext
  \/ EndSweep

AffineSpec == AffineInit /\ [][AffineNext]_vars

\* The sweep is about to presolve an active array_int_element whose index
\* has an affine mapping on a variable with a positive minimum: rule 1 of
\* PresolveSimplifyElement rebuilds the array.
AtAffineElement ==
  /\ AtActiveConstraint
  /\ constraints[index].type = "array_int_element"
  /\ Len(constraints[index].arguments[1].variables) = 1
  /\ ContainsKey(affine_map_, Var(constraints[index].arguments[1]))
  /\ LET mapping == affine_map_[Var(constraints[index].arguments[1])]
         domain == variables[mapping.variable].domain
     IN /\ domain.values # << >>
        /\ domain.values[1] > 0
        /\ mapping.offset + mapping.coefficient > 0

\* C38: the positions coefficient * j + offset - 1 that rule 1 of
\* PresolveSimplifyElement reads from the array are positions of the array.
C38_AffineReadsInBounds ==
  AtAffineElement
    => LET mapping == affine_map_[Var(constraints[index].arguments[1])]
           domain == variables[mapping.variable].domain
           values == constraints[index].arguments[2].values
       IN ~AffineSample([State(0) EXCEPT !.out_of_bounds = FALSE], values, mapping, 1,
                        domain.values[Len(domain.values)]).st.out_of_bounds


\* C39: when PresolveOneConstraint calls SimplifyUnaryLinear, which reads
\* the first coefficient of the constraint, the constraint has a
\* coefficient.
C39_FirstCoefficientExists ==
  RuleOffered("SimplifyUnaryLinear") => constraints[1].arguments[1].values # << >>

====
